---- MODULE Spec2Model ----
(***************************************************************************)
(* Jablotron Volta integration: the Modbus client wrapper                  *)
(* (JablotronModbusClient), the coordinator's poll (_fetch_data) and the   *)
(* entity write handlers that share one client instance.                   *)
(*                                                                         *)
(* Two threads of control use the client: "poll" runs _fetch_data as an    *)
(* executor job, "job" runs one client call at a time (an entity handler's *)
(* write_register, or a direct call of a public client method).  Every     *)
(* call into the underlying ModbusTcpClient that exchanges a request and a *)
(* response is two steps: the request is handed to the transport, then the *)
(* response (or the failure) comes back.                                   *)
(*                                                                         *)
(* Specifications: Spec (polls and entity writes side by side), SpecClient *)
(* (one caller at a time, the config flow's connection test included),     *)
(* SpecReadAll (one poll with failing reads), SpecPolls (polls one after   *)
(* the other), SpecDecode (_process_raw_data on sampled registers),        *)
(* SpecNumber and SpecNumberAny (a number entity's value scaled and        *)
(* decoded again), SpecSigned16 and SpecIp (the helpers of scaling.py      *)
(* applied to their inputs, and their inverses to the results).            *)
(***************************************************************************)
EXTENDS Integers, Sequences, FiniteSets, TLC

\* ---------------------------------------------------------------- constants
SYSTEM_PASSWORD == 5586
HandshakeRegister == 3001
ProtectedLo == 1000
ProtectedHi == 3999

\* ------------------------------------------------------------------- bounds
\* polls a behaviour of Spec or SpecClient may run
MaxPolls == 1
\* failing register reads the device may produce in a behaviour of Spec or
\* SpecClient
MaxFaults == 0
\* failing register reads the device may produce in the poll of SpecReadAll
MaxPlanFaults == 3
\* polls a behaviour of SpecPolls may run, one after the other
MaxSeqPolls == 2
\* failing register reads the device may produce in a behaviour of SpecPolls
MaxSeqFaults == 1
\* dot-separated parts of the address strings ip_to_registers is given
MaxIpParts == 5
\* registers of a group handed to _process_raw_data (the longest group the
\* client stores has 20)
MaxGroupSize == 20

Threads == {"poll", "job"}

\* What a Modbus request can come back with: a normal response, an error
\* response (isError()), a response object without the expected attribute
\* (function_code / registers), or an exception raised by the library.
Outcomes == {"ok", "error", "malformed", "exception"}

\* What ModbusTcpClient.connect() / close() can do.
SockOutcomes == {"ok", "refused", "exception"}
CloseOutcomes == {"ok", "exception_closed", "exception_open"}

\* Addresses and values the callers write; both sides of both ends of the
\* protected window, and the handshake register itself.
WriteAddrs == {999, 1000, 3999, 4000}
WriteVals == {0, 1}
\* Direct reads of holding registers (address, count).
ReadAddrs == {1001, 3001}

VARIABLES
  sockOpen,       \* the underlying ModbusTcpClient holds an open socket
  authenticated,  \* JablotronModbusClient._authenticated
  devUnlocked,    \* the device accepted a handshake on the current connection
  pc,             \* where each thread is
  ret,            \* what the thread's last client call returned
  busy,           \* threads with a Modbus request outstanding
  wire,           \* requests the thread handed to the transport in its job
  api,            \* client methods the thread called in its job
  authSeen,       \* _authenticated as the thread's client call found it
  hsResp,         \* the response to the handshake the thread sent in its job
  jaddr, jval,    \* arguments of the job thread's call
  refresh,        \* the entity handler asked the coordinator to refresh
  isEntity,       \* the job is an entity handler (not a direct client call)
  flow,           \* config flow: where async_step_user is ("none" outside it)
  number_key,     \* number entity: the description's key ("none" outside it)
  native_value,   \* number entity: the value being set, a fraction
  fn_call,        \* scaling.py: the helper called and its argument
  fn_result,      \* scaling.py: what the helper gave, then what its inverse gave
  batch,          \* read_all_data: the locals batch1a .. batch11
  raw_data,       \* read_all_data: data / _fetch_data: raw_data
  processed,      \* _fetch_data: processed_data
  rk,             \* read_all_data: position in the batch plan
  pres,           \* how the poll ended
  meta,           \* coordinator: _serial_number, _firmware_version, ...
  ch2_available,  \* coordinator: _ch2_available
  faults,         \* failing reads the device may still produce
  down,           \* the device has stopped answering the poll's reads ("yes"),
                  \* may still do so ("no"), or never does ("never")
  pollsLeft       \* polls the behaviour may still start

clientVars == <<sockOpen, authenticated, devUnlocked>>
threadVars == <<pc, ret, busy, wire, api, authSeen, hsResp>>
callVars == <<fn_call, fn_result>>
jobVars == <<jaddr, jval, refresh, isEntity, flow, number_key, native_value, callVars>>
pollVars == <<batch, raw_data, processed, rk, pres, meta, ch2_available>>
envVars == <<faults, down, pollsLeft>>
vars == <<clientVars, threadVars, jobVars, pollVars, envVars>>

None == "None"

\* ------------------------------------------------------------ wire requests
Handshake == [kind |-> "hs", addr |-> HandshakeRegister, val |-> SYSTEM_PASSWORD]
DataWrite(a, v) == [kind |-> "data", addr |-> a, val |-> v]
InputRead(a, n) == [kind |-> "input", addr |-> a, val |-> n]
HoldingRead(a, n) == [kind |-> "holding", addr |-> a, val |-> n]

Send(t, req) ==
  /\ wire' = [wire EXCEPT ![t] = Append(@, req)]
  /\ busy' = busy \cup {t}

Recv(t) == busy' = busy \ {t}

\* The sync client reconnects by itself when a request finds the socket
\* closed: a response of any kind means a connection exists afterwards.
SockAfter(o) == sockOpen \/ o # "exception"

Goto(t, l) == pc' = [pc EXCEPT ![t] = l]
Return(t, l, v) ==
  /\ pc' = [pc EXCEPT ![t] = l]
  /\ ret' = [ret EXCEPT ![t] = v]
Called(t, m) == api' = [api EXCEPT ![t] = Append(@, m)]

\* write_register: holding registers 1000..3999 need the handshake
Protected(a) == ProtectedLo <= a /\ a <= ProtectedHi

\* mutant: the function_code check of the handshake response is missing
AuthAcceptedWithoutFunctionCode(o) == o \notin {"error", "exception"}

\* authenticate_system_access: the handshake response counts as accepted
\* only when it is no error response and carries a function code
AuthAccepted(o) == o = "ok"

\* write_register: the data write fails on an error response or an
\* exception; the response is not checked for a function code
WriteSucceeded(o) == o \notin {"error", "exception"}

\* read_input_registers / read_holding_registers: registers or None
NoneResult == [none |-> TRUE, regs |-> <<>>]
ReadResult(o, regs) == IF o = "ok" THEN [none |-> FALSE, regs |-> regs] ELSE NoneResult

\* Python truthiness of a read's result: None and [] are false
Truthy(r) == ~r.none /\ r.regs # <<>>


\* ------------------------------------------------- JablotronModbusClient

\* mutant: connect() reports success whatever the handshake's response
ConnectResultIgnoringAuth(o) == "True"

\* connect(): what it returns once the handshake's response is in
ConnectResult(o) == IF AuthAccepted(o) THEN "True" ELSE "False"

\* connect(): socket-level connect, then the handshake at once.  A client
\* whose socket is already open reports success without a new attempt.
connect(t) ==
  /\ pc[t] = "connect"
  /\ Called(t, "connect")
  /\ authSeen' = [authSeen EXCEPT ![t] = authenticated]
  /\ \E s \in (IF sockOpen THEN {"ok"} ELSE SockOutcomes) :
       IF s = "ok"
         THEN /\ sockOpen' = TRUE
              /\ IF authenticated
                   THEN /\ Return(t, "connect_ret", "True")
                        /\ UNCHANGED <<wire, busy>>
                   ELSE /\ Send(t, Handshake)
                        /\ Goto(t, "connect_hs")
                        /\ UNCHANGED ret
         ELSE /\ Return(t, "connect_ret", "False")
              /\ UNCHANGED <<sockOpen, wire, busy>>
  /\ UNCHANGED <<authenticated, devUnlocked, hsResp, jobVars, pollVars, envVars>>

\* connect(): the handshake's response; connect() fails when it is refused
connect_auth(t) ==
  /\ pc[t] = "connect_hs"
  /\ \E o \in Outcomes :
       /\ Recv(t)
       /\ hsResp' = [hsResp EXCEPT ![t] = o]
       /\ sockOpen' = SockAfter(o)
       /\ authenticated' = (authenticated \/ AuthAccepted(o))
       /\ devUnlocked' = (devUnlocked \/ o = "ok")
       /\ Return(t, "connect_ret", ConnectResult(o))
  /\ UNCHANGED <<wire, api, authSeen, jobVars, pollVars, envVars>>

\* mutant: a close() whose underlying close raises marks the session
\* authenticated
AuthAfterCloseRaised(c) == c # "ok"

\* close(): _authenticated is cleared after the underlying close returned;
\* when that raises, the assignment is skipped
AuthAfterClose(c) == IF c = "ok" THEN FALSE ELSE authenticated

close(t) ==
  /\ pc[t] = "close"
  /\ Called(t, "close")
  /\ \E c \in CloseOutcomes :
       /\ sockOpen' = (sockOpen /\ c = "exception_open")
       /\ devUnlocked' = (devUnlocked /\ c = "exception_open")
       /\ authenticated' = AuthAfterClose(c)
  /\ Return(t, "close_ret", None)
  /\ UNCHANGED <<busy, wire, authSeen, hsResp, jobVars, pollVars, envVars>>

\* mutant: the handshake is sent without looking at _authenticated
NeedsHandshakeAlways(a) == Protected(a)

\* write_register(address, value): the authentication check
NeedsHandshake(a) == Protected(a) /\ ~authenticated

write_register ==
  /\ pc["job"] = "write"
  /\ Called("job", "write_register")
  /\ authSeen' = [authSeen EXCEPT !["job"] = authenticated]
  /\ IF NeedsHandshake(jaddr)
       THEN /\ Send("job", Handshake)
            /\ Goto("job", "write_hs")
       ELSE /\ Goto("job", "write_send")
            /\ UNCHANGED <<wire, busy>>
  /\ UNCHANGED <<clientVars, ret, hsResp, jobVars, pollVars, envVars>>

\* write_register: where it goes after the handshake's response
AfterHandshake(o) == IF AuthAccepted(o) THEN "write_send" ELSE "write_ret"

write_auth ==
  /\ pc["job"] = "write_hs"
  /\ \E o \in Outcomes :
       /\ Recv("job")
       /\ hsResp' = [hsResp EXCEPT !["job"] = o]
       /\ sockOpen' = SockAfter(o)
       /\ authenticated' = (authenticated \/ AuthAccepted(o))
       /\ devUnlocked' = (devUnlocked \/ o = "ok")
       /\ Return("job", AfterHandshake(o),
                 IF AfterHandshake(o) = "write_ret" THEN "False" ELSE ret["job"])
  /\ UNCHANGED <<wire, api, authSeen, jobVars, pollVars, envVars>>

write_send ==
  /\ pc["job"] = "write_send"
  /\ Send("job", DataWrite(jaddr, jval))
  /\ Goto("job", "write_data")
  /\ UNCHANGED <<clientVars, ret, api, authSeen, hsResp, jobVars, pollVars, envVars>>

write_data ==
  /\ pc["job"] = "write_data"
  /\ \E o \in Outcomes :
       /\ Recv("job")
       /\ sockOpen' = SockAfter(o)
       /\ Return("job", "write_ret", IF WriteSucceeded(o) THEN "True" ELSE "False")
  /\ UNCHANGED <<authenticated, devUnlocked, wire, api, authSeen, hsResp, jobVars,
                 pollVars, envVars>>

\* read_holding_registers(address, 1) called directly: no authentication
\* check at all, the request goes out as it is
read_holding_registers ==
  /\ pc["job"] = "read_holding"
  /\ Called("job", "read_holding_registers")
  /\ authSeen' = [authSeen EXCEPT !["job"] = authenticated]
  /\ Send("job", HoldingRead(jaddr, 1))
  /\ Goto("job", "read_wait")
  /\ UNCHANGED <<clientVars, ret, hsResp, jobVars, pollVars, envVars>>

read_holding_result ==
  /\ pc["job"] = "read_wait"
  /\ \E o \in Outcomes :
       /\ Recv("job")
       /\ sockOpen' = SockAfter(o)
       /\ Return("job", "read_ret", IF ReadResult(o, <<0>>).none THEN None ELSE "regs")
  /\ UNCHANGED <<authenticated, devUnlocked, wire, api, authSeen, hsResp, jobVars,
                 pollVars, envVars>>

\* read_input_registers(0, 1) called directly (the config flow's test read)
read_input_registers ==
  /\ pc["job"] = "read_input"
  /\ Called("job", "read_input_registers")
  /\ Send("job", InputRead(0, 1))
  /\ Goto("job", "input_wait")
  /\ UNCHANGED <<clientVars, ret, authSeen, hsResp, jobVars, pollVars, envVars>>

read_input_result ==
  /\ pc["job"] = "input_wait"
  /\ \E o \in Outcomes :
       /\ Recv("job")
       /\ sockOpen' = SockAfter(o)
       /\ Return("job", "input_ret", IF ReadResult(o, <<0>>).none THEN None ELSE "regs")
  /\ UNCHANGED <<authenticated, devUnlocked, wire, api, authSeen, hsResp, jobVars,
                 pollVars, envVars>>

\* -------------------------------------------------------- the job thread
JobBegin(op, a, v, entity) ==
  /\ pc["job"] = "idle"
  /\ flow = "none"
  /\ pc' = [pc EXCEPT !["job"] = op]
  /\ jaddr' = a
  /\ jval' = v
  /\ isEntity' = entity
  /\ refresh' = FALSE
  /\ UNCHANGED <<clientVars, ret, busy, wire, api, authSeen, hsResp, pollVars, envVars,
                 flow, number_key, native_value, callVars>>

\* the executor job is over: the thread's record of it is dropped
Forget(t) ==
  /\ pc' = [pc EXCEPT ![t] = "idle"]
  /\ ret' = [ret EXCEPT ![t] = "none"]
  /\ wire' = [wire EXCEPT ![t] = <<>>]
  /\ api' = [api EXCEPT ![t] = <<>>]
  /\ authSeen' = [authSeen EXCEPT ![t] = FALSE]
  /\ hsResp' = [hsResp EXCEPT ![t] = "none"]

\* number / select / switch / climate / button: the handler runs
\* client.write_register as an executor job; no connect(), no close()
EntityWrite == \E a \in WriteAddrs, v \in WriteVals : JobBegin("write", a, v, TRUE)

\* mutant: the refresh is requested whatever the write returned
RefreshRequestedAlways(r) == TRUE

\* if success: await self.coordinator.async_request_refresh()
RefreshRequested(r) == r = "True"

\* the handler's tail: a refresh is requested when the write succeeded;
\* otherwise the failure is logged and nothing else is done
EntityReturn ==
  /\ pc["job"] = "write_ret"
  /\ isEntity
  /\ refresh' = RefreshRequested(ret["job"])
  /\ Forget("job")
  /\ jaddr' = 0
  /\ jval' = 0
  /\ UNCHANGED <<clientVars, busy, isEntity, flow, number_key, native_value, callVars, pollVars,
                 envVars>>

\* a caller of the client's public methods
DirectCall ==
  \/ \E a \in WriteAddrs, v \in WriteVals : JobBegin("write", a, v, FALSE)
  \/ \E a \in ReadAddrs : JobBegin("read_holding", a, 0, FALSE)
  \/ JobBegin("connect", 0, 0, FALSE)
  \/ JobBegin("close", 0, 0, FALSE)

DirectReturn ==
  /\ pc["job"] \in {"write_ret", "read_ret", "connect_ret", "close_ret"}
  /\ ~isEntity
  /\ flow = "none"
  /\ Forget("job")
  /\ jaddr' = 0
  /\ jval' = 0
  /\ UNCHANGED <<clientVars, busy, refresh, isEntity, flow, number_key, native_value, callVars,
                 pollVars, envVars>>

\* ------------------------------------- config flow: async_step_user
\* The flow tests the connection with a client of its own, newly made:
\* connect(), and when that succeeded read_input_registers(0, 1) and
\* close(); then close() again in the finally clause.

\* a newly constructed JablotronModbusClient
FreshClient == ~sockOpen /\ ~authenticated /\ ~devUnlocked

FlowStep(l, f) ==
  /\ pc' = [pc EXCEPT !["job"] = l]
  /\ flow' = f
  /\ UNCHANGED <<clientVars, ret, busy, wire, api, authSeen, hsResp, jaddr, jval, refresh,
                 isEntity, number_key, native_value, callVars, pollVars, envVars>>

ConfigFlowStart ==
  /\ pc["job"] = "idle"
  /\ pc["poll"] = "idle"
  /\ flow = "none"
  /\ FreshClient
  /\ FlowStep("connect", "connect")

\* if connected: the test read; else straight to the finally clause
ConfigFlowConnected ==
  /\ pc["job"] = "connect_ret"
  /\ flow = "connect"
  /\ IF ret["job"] = "True"
       THEN FlowStep("read_input", "read")
       ELSE FlowStep("close", "finally")

\* the close() that follows the test read
ConfigFlowRead ==
  /\ pc["job"] = "input_ret"
  /\ flow = "read"
  /\ FlowStep("close", "close")

\* the finally clause: close() once more
ConfigFlowClosed ==
  /\ pc["job"] = "close_ret"
  /\ flow = "close"
  /\ FlowStep("close", "finally")

ConfigFlowEnd ==
  /\ pc["job"] = "close_ret"
  /\ flow = "finally"
  /\ Forget("job")
  /\ flow' = "none"
  /\ UNCHANGED <<clientVars, busy, jaddr, jval, refresh, isEntity, number_key,
                 native_value, callVars, pollVars, envVars>>

\* ------------------------------------------------------- read_all_data

\* dict helpers
EmptyDict == <<>>
Has(d, k) == k \in DOMAIN d
Get(d, k, default) == IF k \in DOMAIN d THEN d[k] ELSE default
Put(d, k, v) == [x \in DOMAIN d \cup {k} |-> IF x = k THEN v ELSE d[x]]

Min(a, b) == IF a < b THEN a ELSE b
Zeros(n) == [i \in 1..n |-> 0]
\* s[lo:hi] of Python (0-based, hi excluded, cut at the end of s)
PySlice(s, lo, hi) ==
  IF lo >= Min(hi, Len(s)) THEN <<>> ELSE SubSeq(s, lo + 1, Min(hi, Len(s)))

\* The batch plan, in the order read_all_data issues it.
BatchPlan == <<
  [kind |-> "input",   addr |-> 1,    count |-> 17],   \* batch1a
  [kind |-> "input",   addr |-> 20,   count |-> 2],    \* batch1b
  [kind |-> "input",   addr |-> 30,   count |-> 3],    \* batch1c
  [kind |-> "input",   addr |-> 40,   count |-> 10],   \* batch1d
  [kind |-> "input",   addr |-> 101,  count |-> 2],    \* batch2
  [kind |-> "input",   addr |-> 200,  count |-> 7],    \* batch3
  [kind |-> "input",   addr |-> 300,  count |-> 7],    \* batch4
  [kind |-> "holding", addr |-> 1001, count |-> 2],    \* batch5a
  [kind |-> "holding", addr |-> 1010, count |-> 9],    \* batch5b
  [kind |-> "holding", addr |-> 1030, count |-> 6],    \* batch6a
  [kind |-> "holding", addr |-> 1040, count |-> 1],    \* batch6b
  [kind |-> "holding", addr |-> 1050, count |-> 13],   \* batch7
  [kind |-> "holding", addr |-> 1100, count |-> 5],    \* batch8a
  [kind |-> "holding", addr |-> 1106, count |-> 2],    \* batch8b
  [kind |-> "holding", addr |-> 1200, count |-> 20],   \* batch9
  [kind |-> "holding", addr |-> 1300, count |-> 20],   \* batch10
  [kind |-> "holding", addr |-> 3001, count |-> 10] >> \* batch11
NumReads == Len(BatchPlan)
ProbeRead == 7
Ch2SettingsRead == 16

PlanRequest(k) ==
  [kind |-> BatchPlan[k].kind, addr |-> BatchPlan[k].addr, val |-> BatchPlan[k].count]

\* What the device holds: every register holds its own address, so that a
\* value in a batch tells which register it came from (a zero is a
\* placeholder).  The CH2 status block is absent (all 0, all 0xFFFF), a mix
\* of 0 and 0xFFFF, or live data.
DeviceRegisters(a, n) == [i \in 1..n |-> a + i - 1]
ProbeContents ==
  { [i \in 1..7 |-> 0],
    [i \in 1..7 |-> 65535],
    [i \in 1..7 |-> IF i % 2 = 1 THEN 0 ELSE 65535],
    DeviceRegisters(300, 7) }
DeviceContents(k) ==
  IF k = ProbeRead THEN ProbeContents
  ELSE {DeviceRegisters(BatchPlan[k].addr, BatchPlan[k].count)}

\* mutant: absent only when the probe is all zeros or all 0xFFFF
ProbePresentUnlessUniform(regs) ==
  /\ \E i \in 1..Len(regs) : regs[i] # 0
  /\ \E i \in 1..Len(regs) : regs[i] # 65535

\* any(val != 0 and val != 0xFFFF for val in batch4)
ProbePresent(regs) == \E i \in 1..Len(regs) : regs[i] # 0 /\ regs[i] # 65535

\* Batch 1: the four input reads are combined, gaps filled with zeros, and
\* sliced; only when all four succeeded
Batch1Complete(b) == Truthy(b[1]) /\ Truthy(b[2]) /\ Truthy(b[3]) /\ Truthy(b[4])
\* mutant: one placeholder for the two registers between the first reads
Batch1OneShort(b) ==
  b[1].regs \o <<0>> \o b[2].regs \o Zeros(8) \o b[3].regs \o Zeros(7) \o b[4].regs

Batch1(b) ==
  b[1].regs \o <<0, 0>> \o b[2].regs \o Zeros(8) \o b[3].regs \o Zeros(7) \o b[4].regs
MergeBatch1(d, b) ==
  IF Batch1Complete(b)
    THEN Put(Put(Put(Put(Put(d,
           "device_info", PySlice(Batch1(b), 0, 11)),
           "network_info", PySlice(Batch1(b), 11, 17)),
           "system_status", PySlice(Batch1(b), 19, 21)),
           "regulation", PySlice(Batch1(b), 29, 32)),
           "boiler_status", PySlice(Batch1(b), 39, 49))
    ELSE d

\* a batch stored under its own key when the read succeeded
MergePlain(d, key, r) == IF Truthy(r) THEN Put(d, key, r.regs) ELSE d

\* Batch 4: the CH2 presence probe
MergeProbe(d, r) ==
  IF Truthy(r)
    THEN IF ProbePresent(r.regs)
           THEN Put(Put(d, "ch2_status", r.regs), "ch2_available", TRUE)
           ELSE Put(d, "ch2_available", FALSE)
    ELSE d

\* Batches 6b and 8b: the second part of a settings group is appended after
\* zeros for the gap, or after zeros for the whole first part when that is
\* missing
MergeSecondPart(d, key, r, gap, firstLen) ==
  IF Truthy(r)
    THEN IF Has(d, key)
           THEN Put(d, key, d[key] \o Zeros(gap) \o r.regs)
           ELSE Put(d, key, Zeros(firstLen + gap) \o r.regs)
    ELSE d

\* data after the statements that follow read k of the plan
Merge(k, d, b) ==
  CASE k \in {1, 2, 3} -> d
    [] k = 4  -> MergeBatch1(d, b)
    [] k = 5  -> MergePlain(d, "dhw_status", b[k])
    [] k = 6  -> MergePlain(d, "ch1_status", b[k])
    [] k = 7  -> MergeProbe(d, b[k])
    [] k = 8  -> MergePlain(d, "system_alerts", b[k])
    [] k = 9  -> MergePlain(d, "ethernet_config", b[k])
    [] k = 10 -> MergePlain(d, "regulation_settings", b[k])
    [] k = 11 -> MergeSecondPart(d, "regulation_settings", b[k], 4, 6)
    [] k = 12 -> MergePlain(d, "boiler_settings", b[k])
    [] k = 13 -> MergePlain(d, "dhw_settings", b[k])
    [] k = 14 -> MergeSecondPart(d, "dhw_settings", b[k], 1, 5)
    [] k = 15 -> MergePlain(d, "ch1_settings", b[k])
    [] k = 16 -> MergePlain(d, "ch2_settings", b[k])
    [] k = 17 -> MergePlain(d, "system_control", b[k])

\* mutant: the CH2 settings are read whatever the probe said
NextReadUnconditional(k, d) == k + 1

\* the read that follows read k: the CH2 settings are read only when the
\* probe reported the circuit
NextRead(k, d) ==
  IF k + 1 = Ch2SettingsRead /\ ~Get(d, "ch2_available", FALSE) THEN k + 2 ELSE k + 1


\* ---------------------------------------------------- _process_raw_data

\* Decoded numbers are exact fractions num/den: value / 10.0 is
\* [num |-> value, den |-> 10], a register used as it is has den 1.
IntValue(value) == [num |-> value, den |-> 1]
BoolValue(value) == value # 0
SameNumber(x, y) == x.num * y.den = y.num * x.den
\* value * 10
Times10(x) == [num |-> x.num * 10, den |-> x.den]
\* int(x): the fraction cut towards zero
PyInt(x) ==
  IF x.num >= 0 THEN x.num \div x.den ELSE -((-x.num) \div x.den)

\* scaling.py, register -> value (the unsigned family)
scale_temperature(value) == [num |-> value, den |-> 10]
scale_voltage(value) == [num |-> value, den |-> 10]
scale_pressure(value) == [num |-> value, den |-> 10]
scale_percentage(value) == [num |-> value, den |-> 10]
scale_ratio(value) == [num |-> value, den |-> 10]

\* mutant: the sign bit itself is taken as positive
to_signed_int16_above_sign_bit(value) == IF value > 32768 THEN value - 65536 ELSE value

\* scaling.py, the signed family: a register is a 16-bit two's complement
\* number
to_signed_int16(value) == IF value > 32767 THEN value - 65536 ELSE value
to_unsigned_int16(value) == IF value < 0 THEN value + 65536 ELSE value
\* to_signed_int16(value) / 10.0
scale_signed_temperature(value) == [num |-> to_signed_int16(value), den |-> 10]
\* to_unsigned_int16(int(value * 10))
unscale_signed_temperature(value) == to_unsigned_int16(PyInt(Times10(value)))

\* Strings the code formats or parses are sequences of one-character
\* strings: "1.2" is <<"1", ".", "2">>.
DecDigits == <<"0", "1", "2", "3", "4", "5", "6", "7", "8", "9">>
HexDigits == DecDigits \o <<"A", "B", "C", "D", "E", "F">>

\* the digits of a natural number in a base, most significant first
RECURSIVE NatDigits(_, _)
NatDigits(n, digits) ==
  IF n < Len(digits)
    THEN <<digits[n + 1]>>
    ELSE NatDigits(n \div Len(digits), digits) \o <<digits[(n % Len(digits)) + 1]>>

\* str(n) and f"{n}" of an int
str(n) == IF n < 0 THEN <<"-">> \o NatDigits(-n, DecDigits) ELSE NatDigits(n, DecDigits)

\* mutant: no padding
Hex02Unpadded(n) == NatDigits(n, HexDigits)

\* f"{n:02X}": uppercase hexadecimal, padded with a zero to two digits
Hex02(n) ==
  LET d == NatDigits(n, HexDigits) IN IF Len(d) < 2 THEN <<"0">> \o d ELSE d

\* sep.join(parts)
RECURSIVE Join(_, _)
Join(parts, sep) ==
  IF parts = <<>> THEN <<>>
  ELSE IF Len(parts) = 1 THEN parts[1]
  ELSE parts[1] \o <<sep>> \o Join(Tail(parts), sep)

\* value >> 8 and value & 0xFF of a Python int (floor and residue, also for
\* a negative value)
HighByte(value) == value \div 256
LowByte(value) == value % 256

\* f"{reg0 >> 8}.{reg0 & 0xFF}.{reg1 >> 8}.{reg1 & 0xFF}"
registers_to_ip(reg0, reg1) ==
  Join(<<str(HighByte(reg0)), str(LowByte(reg0)), str(HighByte(reg1)), str(LowByte(reg1))>>, ".")
\* (reg0 << 16) | reg1, registers being 16 bits wide: the 32-bit number,
\* kept as its two 16-bit halves so that no arithmetic leaves 32 bits
registers_to_uint32(reg0, reg1) == [high |-> reg0, low |-> reg1]
\* str() of such a number: its decimal digits by long division
RECURSIVE uint32_str(_)
uint32_str(n) ==
  IF n.high = 0 THEN str(n.low)
  ELSE LET rest == (n.high % 10) * 65536 + n.low IN
         uint32_str([high |-> n.high \div 10, low |-> rest \div 10])
           \o <<DecDigits[(rest % 10) + 1]>>
\* the six bytes of three registers as :02X pairs joined by colons
registers_to_mac(reg0, reg1, reg2) ==
  Join(<<Hex02(HighByte(reg0)), Hex02(LowByte(reg0)), Hex02(HighByte(reg1)),
         Hex02(LowByte(reg1)), Hex02(HighByte(reg2)), Hex02(LowByte(reg2))>>, ":")
\* what a call gives: a value, or an exception raised
Returned(v) == [raised |-> "none", value |-> v]
Raised(e) == [raised |-> e, value |-> None]

\* s.split(sep)
RECURSIVE Split(_, _)
Split(s, sep) ==
  IF \A i \in 1..Len(s) : s[i] # sep
    THEN <<s>>
    ELSE LET i == CHOOSE j \in 1..Len(s) : s[j] = sep /\ \A k \in 1..(j - 1) : s[k] # sep
         IN <<SubSeq(s, 1, i - 1)>> \o Split(SubSeq(s, i + 1, Len(s)), sep)

IsDigit(c) == \E i \in 1..Len(DecDigits) : DecDigits[i] = c
DigitValue(c) == (CHOOSE i \in 1..Len(DecDigits) : DecDigits[i] = c) - 1
\* s.strip() of blanks
RECURSIVE Strip(_)
Strip(s) ==
  IF s # <<>> /\ s[1] = " " THEN Strip(Tail(s))
  ELSE IF s # <<>> /\ s[Len(s)] = " " THEN Strip(SubSeq(s, 1, Len(s) - 1))
  ELSE s
\* the sign and the digits of what int() is given
Unsigned(s) == IF s # <<>> /\ s[1] \in {"+", "-"} THEN Tail(s) ELSE s
\* int(s) accepts blanks around, one sign, and digits with single
\* underscores between them; anything else is a ValueError
IsIntLiteral(s) ==
  LET d == Unsigned(Strip(s)) IN
    /\ d # <<>>
    /\ IsDigit(d[1]) /\ IsDigit(d[Len(d)])
    /\ \A i \in 1..Len(d) : IsDigit(d[i]) \/ d[i] = "_"
    /\ \A i \in 1..(Len(d) - 1) : ~(d[i] = "_" /\ d[i + 1] = "_")
RECURSIVE DigitsValue(_)
DigitsValue(d) ==
  IF d = <<>> THEN 0
  ELSE IF d[Len(d)] = "_" THEN DigitsValue(SubSeq(d, 1, Len(d) - 1))
  ELSE DigitsValue(SubSeq(d, 1, Len(d) - 1)) * 10 + DigitValue(d[Len(d)])
\* int(s) of a string int() accepts
IntOf(s) ==
  LET t == Strip(s) IN
    IF t[1] = "-" THEN -DigitsValue(Unsigned(t)) ELSE DigitsValue(Unsigned(t))

\* a | b of Python ints (two's complement of unbounded width)
RECURSIVE BitOr(_, _)
BitOr(a, b) ==
  IF a = 0 THEN b
  ELSE IF b = 0 THEN a
  ELSE IF a = -1 \/ b = -1 THEN -1
  ELSE 2 * BitOr(a \div 2, b \div 2) + (IF a % 2 = 1 \/ b % 2 = 1 THEN 1 ELSE 0)

\* mutant: the two bytes of a register change places
ip_to_registers_low_byte_first(ip) ==
  LET strs == Split(ip, ".") IN
    IF \E i \in 1..Len(strs) : ~IsIntLiteral(strs[i]) THEN Raised("ValueError")
    ELSE IF Len(strs) < 4 THEN Raised("IndexError")
    ELSE Returned(<<BitOr(IntOf(strs[2]) * 256, IntOf(strs[1])),
                    BitOr(IntOf(strs[4]) * 256, IntOf(strs[3]))>>)

\* parts = [int(p) for p in ip.split(".")]: every part is parsed (ValueError)
\* before the first four are used (IndexError); no range is checked and
\* further parts are left alone
ip_to_registers(ip) ==
  LET strs == Split(ip, ".") IN
    IF \E i \in 1..Len(strs) : ~IsIntLiteral(strs[i]) THEN Raised("ValueError")
    ELSE IF Len(strs) < 4 THEN Raised("IndexError")
    ELSE Returned(<<BitOr(IntOf(strs[1]) * 256, IntOf(strs[2])),
                    BitOr(IntOf(strs[3]) * 256, IntOf(strs[4]))>>)

\* f"{high >> 8}.{high & 0xFF}.{low}"
VersionOf(high, low) == Join(<<str(HighByte(high)), str(LowByte(high)), str(low)>>, ".")

\* mutant: a group of exactly the required length is taken as too short
UsableWhenLonger(raw, key, n) == Has(raw, key) /\ Len(raw[key]) > n

\* a group of raw_data that is present and long enough
Usable(raw, key, n) == Has(raw, key) /\ Len(raw[key]) >= n

\* the coordinator's cached device metadata after processing raw
NoMeta == [known |-> FALSE, serial |-> <<>>, firmware |-> <<>>, hardware |-> <<>>, mac |-> <<>>]
ProcessDeviceInfo(raw, old) ==
  IF Usable(raw, "device_info", 11)
    THEN LET r == raw["device_info"] IN
         [known |-> TRUE,
          serial |-> uint32_str(registers_to_uint32(r[1], r[2])),
          firmware |-> VersionOf(r[10], r[11]),
          hardware |-> VersionOf(r[5], r[6]),
          mac |-> registers_to_mac(r[7], r[8], r[9])]
    ELSE old

ProcessNetworkInfo(raw) ==
  IF Usable(raw, "network_info", 6)
    THEN LET r == raw["network_info"] IN
         ("ip_address" :> registers_to_ip(r[1], r[2]))
         @@ ("subnet_mask" :> registers_to_ip(r[3], r[4]))
         @@ ("gateway" :> registers_to_ip(r[5], r[6]))
    ELSE EmptyDict

ProcessSystemAlerts(raw) ==
  IF Usable(raw, "system_alerts", 2)
    THEN ("system_attention" :> registers_to_uint32(raw["system_alerts"][1], raw["system_alerts"][2]))
    ELSE EmptyDict

ProcessSystemStatus(raw) ==
  IF Usable(raw, "system_status", 2)
    THEN LET r == raw["system_status"] IN
         ("cpu_temperature" :> scale_temperature(r[1]))
         @@ ("battery_voltage" :> scale_voltage(r[2]))
    ELSE EmptyDict

ProcessRegulation(raw) ==
  IF Usable(raw, "regulation", 3)
    THEN LET r == raw["regulation"] IN
         ("regulation_mode_current" :> IntValue(r[1]))
         @@ ("outdoor_temp_damped" :> scale_temperature(r[2]))
         @@ ("outdoor_temp_composite" :> scale_temperature(r[3]))
    ELSE EmptyDict

ProcessBoilerStatus(raw) ==
  IF Usable(raw, "boiler_status", 10)
    THEN LET r == raw["boiler_status"] IN
         ("boiler_active_segments" :> IntValue(r[1]))
         @@ ("boiler_inactive_segments" :> IntValue(r[2]))
         @@ ("boiler_pressure" :> scale_pressure(r[3]))
         @@ ("boiler_water_input_temp" :> scale_temperature(r[5]))
         @@ ("boiler_water_return_temp" :> scale_temperature(r[6]))
         @@ ("boiler_pump_power" :> scale_percentage(r[7]))
         @@ ("boiler_heating_power" :> scale_percentage(r[8]))
         @@ ("boiler_analog_value" :> scale_voltage(r[9]))
         @@ ("boiler_pwm_value" :> IntValue(r[10]))
    ELSE EmptyDict

ProcessDhwStatus(raw) ==
  IF Usable(raw, "dhw_status", 2)
    THEN LET r == raw["dhw_status"] IN
         ("dhw_state_heat" :> BoolValue(r[1]))
         @@ ("dhw_temperature_current" :> scale_temperature(r[2]))
    ELSE EmptyDict

ProcessCh1Status(raw) ==
  IF Usable(raw, "ch1_status", 7)
    THEN LET r == raw["ch1_status"] IN
         ("ch1_state_heat" :> BoolValue(r[1]))
         @@ ("ch1_temperature_current" :> scale_temperature(r[2]))
         @@ ("ch1_water_input_temp" :> scale_temperature(r[3]))
         @@ ("ch1_water_return_temp" :> scale_temperature(r[4]))
         @@ ("ch1_pump_power" :> IntValue(r[5]))
         @@ ("ch1_humidity" :> scale_percentage(r[6]))
         @@ ("ch1_co2" :> scale_percentage(r[7]))
    ELSE EmptyDict

ProcessCh2Status(raw) ==
  IF Usable(raw, "ch2_status", 7)
    THEN LET r == raw["ch2_status"] IN
         ("ch2_state_heat" :> BoolValue(r[1]))
         @@ ("ch2_temperature_current" :> scale_temperature(r[2]))
         @@ ("ch2_water_input_temp" :> scale_temperature(r[3]))
         @@ ("ch2_water_return_temp" :> scale_temperature(r[4]))
         @@ ("ch2_pump_power" :> IntValue(r[5]))
         @@ ("ch2_humidity" :> scale_percentage(r[6]))
         @@ ("ch2_co2" :> scale_percentage(r[7]))
    ELSE EmptyDict

ProcessRegulationSettings(raw) ==
  IF Usable(raw, "regulation_settings", 6)
    THEN LET r == raw["regulation_settings"] IN
         ("regulation_mode_user" :> IntValue(r[1]))
         @@ ("outdoor_temp_source" :> IntValue(r[2]))
         @@ ("building_momentum" :> IntValue(r[3]))
         @@ ("composite_filter_ratio" :> scale_ratio(r[4]))
         @@ ("changeover_temp" :> scale_temperature(r[5]))
         @@ ("outdoor_temp_manual" :> scale_temperature(r[6]))
    ELSE EmptyDict

ProcessBoilerSettings(raw) ==
  IF Usable(raw, "boiler_settings", 13)
    THEN LET r == raw["boiler_settings"] IN
         ("boiler_load_release" :> IntValue(r[1]))
         @@ ("boiler_hdo_high_tariff" :> IntValue(r[2]))
         @@ ("boiler_outdoor_temp_correction" :> scale_temperature(r[3]))
         @@ ("boiler_total_energy" :> IntValue(r[4]))
         @@ ("boiler_water_setpoint" :> scale_temperature(r[5]))
         @@ ("boiler_water_temp_max" :> scale_temperature(r[6]))
         @@ ("boiler_water_temp_min" :> scale_temperature(r[7]))
    ELSE EmptyDict

ProcessDhwSettings(raw) ==
  IF Usable(raw, "dhw_settings", 8)
    THEN LET r == raw["dhw_settings"] IN
         ("dhw_mode" :> IntValue(r[1]))
         @@ ("dhw_temperature_desired" :> scale_temperature(r[2]))
         @@ ("dhw_temperature_min" :> scale_temperature(r[3]))
         @@ ("dhw_temperature_max" :> scale_temperature(r[4]))
         @@ ("dhw_temperature_manual" :> scale_temperature(r[5]))
         @@ ("dhw_hysteresis" :> scale_temperature(r[7]))
         @@ ("dhw_regulation_strategy" :> IntValue(r[8]))
    ELSE EmptyDict

ProcessCh1Settings(raw) ==
  IF Usable(raw, "ch1_settings", 20)
    THEN LET r == raw["ch1_settings"] IN
         ("ch1_mode" :> IntValue(r[1]))
         @@ ("ch1_temperature_desired" :> scale_temperature(r[2]))
         @@ ("ch1_temperature_min" :> scale_temperature(r[3]))
         @@ ("ch1_temperature_max" :> scale_temperature(r[4]))
         @@ ("ch1_temperature_manual" :> scale_temperature(r[5]))
         @@ ("ch1_temperature_antifrost" :> scale_temperature(r[6]))
         @@ ("ch1_hysteresis" :> scale_temperature(r[7]))
         @@ ("ch1_regulation_strategy" :> IntValue(r[8]))
         @@ ("ch1_water_temp_min" :> scale_temperature(r[9]))
         @@ ("ch1_water_temp_max" :> scale_temperature(r[10]))
         @@ ("ch1_water_setpoint" :> scale_temperature(r[11]))
         @@ ("ch1_equitherm_slope" :> IntValue(r[12]))
         @@ ("ch1_equitherm_offset" :> scale_temperature(r[13]))
         @@ ("ch1_equitherm_room_effect" :> IntValue(r[14]))
         @@ ("ch1_threshold_setpoint" :> scale_temperature(r[15]))
         @@ ("ch1_limit_heat_temp" :> scale_temperature(r[16]))
         @@ ("ch1_optimal_start" :> BoolValue(r[17]))
         @@ ("ch1_fast_cooldown" :> BoolValue(r[18]))
         @@ ("ch1_temp_correction" :> scale_temperature(r[19]))
         @@ ("ch1_humidity_correction" :> scale_percentage(r[20]))
    ELSE EmptyDict

ProcessCh2Settings(raw) ==
  IF Usable(raw, "ch2_settings", 20)
    THEN LET r == raw["ch2_settings"] IN
         ("ch2_mode" :> IntValue(r[1]))
         @@ ("ch2_temperature_desired" :> scale_temperature(r[2]))
         @@ ("ch2_temperature_min" :> scale_temperature(r[3]))
         @@ ("ch2_temperature_max" :> scale_temperature(r[4]))
         @@ ("ch2_temperature_manual" :> scale_temperature(r[5]))
         @@ ("ch2_temperature_antifrost" :> scale_temperature(r[6]))
         @@ ("ch2_hysteresis" :> scale_temperature(r[7]))
         @@ ("ch2_regulation_strategy" :> IntValue(r[8]))
         @@ ("ch2_water_temp_min" :> scale_temperature(r[9]))
         @@ ("ch2_water_temp_max" :> scale_temperature(r[10]))
         @@ ("ch2_water_setpoint" :> scale_temperature(r[11]))
         @@ ("ch2_equitherm_slope" :> IntValue(r[12]))
         @@ ("ch2_equitherm_offset" :> scale_temperature(r[13]))
         @@ ("ch2_equitherm_room_effect" :> IntValue(r[14]))
         @@ ("ch2_threshold_setpoint" :> scale_temperature(r[15]))
         @@ ("ch2_limit_heat_temp" :> scale_temperature(r[16]))
         @@ ("ch2_optimal_start" :> BoolValue(r[17]))
         @@ ("ch2_fast_cooldown" :> BoolValue(r[18]))
         @@ ("ch2_temp_correction" :> scale_temperature(r[19]))
         @@ ("ch2_humidity_correction" :> scale_percentage(r[20]))
    ELSE EmptyDict

ProcessSystemControl(raw) ==
  IF Usable(raw, "system_control", 10)
    THEN LET r == raw["system_control"] IN
         ("control_mode" :> IntValue(r[2]))
         @@ ("error_code" :> IntValue(r[4]))
         @@ ("master_fail_mode" :> IntValue(r[6]))
         @@ ("master_timeout" :> IntValue(r[7]))
         @@ ("circuit_mask" :> IntValue(r[10]))
    ELSE EmptyDict

\* the decoded snapshot: the fields of every usable group
ProcessRawData(raw) ==
  ProcessNetworkInfo(raw)
  @@ ProcessSystemStatus(raw)
  @@ ProcessRegulation(raw)
  @@ ProcessBoilerStatus(raw)
  @@ ProcessDhwStatus(raw)
  @@ ProcessCh1Status(raw)
  @@ ProcessCh2Status(raw)
  @@ ProcessSystemAlerts(raw)
  @@ ProcessRegulationSettings(raw)
  @@ ProcessBoilerSettings(raw)
  @@ ProcessDhwSettings(raw)
  @@ ProcessCh1Settings(raw)
  @@ ProcessCh2Settings(raw)
  @@ ProcessSystemControl(raw)


\* ------------------------------------------------- number.py: NUMBER_TYPES
\* Values a number entity takes are fractions num/den like the decoded ones.
\* the three scale_fn lambdas of the descriptions
ScaleInt(x) == PyInt(x)
ScaleTenths(x) == PyInt(Times10(x))
ScaleSignedTenths(x) ==
  IF x.num >= 0 THEN PyInt(Times10(x)) ELSE PyInt(Times10(x)) + 65536
ScaleFn(name, x) ==
  CASE name = "int" -> ScaleInt(x)
    [] name = "x10" -> ScaleTenths(x)
    [] name = "signed" -> ScaleSignedTenths(x)

\* The descriptions: key, the snapshot key value_fn reads, native_min_value,
\* native_max_value and native_step in tenths, the scale_fn, and the place
\* (group of raw_data, position in it) the coordinator decodes data_key from.
NUMBER_TYPES == {
    [key |-> "building_momentum", data_key |-> "building_momentum",
     min |-> 0, max |-> 2000, step |-> 10, scale_fn |-> "int",
     group |-> "regulation_settings", index |-> 3],
    [key |-> "composite_filter_ratio", data_key |-> "composite_filter_ratio",
     min |-> 0, max |-> 10, step |-> 1, scale_fn |-> "x10",
     group |-> "regulation_settings", index |-> 4],
    [key |-> "changeover_temp", data_key |-> "changeover_temp",
     min |-> -200, max |-> 300, step |-> 5, scale_fn |-> "signed",
     group |-> "regulation_settings", index |-> 5],
    [key |-> "outdoor_temp_manual", data_key |-> "outdoor_temp_manual",
     min |-> -400, max |-> 500, step |-> 5, scale_fn |-> "signed",
     group |-> "regulation_settings", index |-> 6],
    [key |-> "boiler_outdoor_temp_correction", data_key |-> "boiler_outdoor_temp_correction",
     min |-> -100, max |-> 100, step |-> 5, scale_fn |-> "signed",
     group |-> "boiler_settings", index |-> 3],
    [key |-> "boiler_water_temp_max", data_key |-> "boiler_water_temp_max",
     min |-> 300, max |-> 900, step |-> 10, scale_fn |-> "x10",
     group |-> "boiler_settings", index |-> 6],
    [key |-> "boiler_water_temp_min", data_key |-> "boiler_water_temp_min",
     min |-> 100, max |-> 600, step |-> 10, scale_fn |-> "x10",
     group |-> "boiler_settings", index |-> 7],
    [key |-> "dhw_hysteresis", data_key |-> "dhw_hysteresis",
     min |-> 5, max |-> 100, step |-> 5, scale_fn |-> "x10",
     group |-> "dhw_settings", index |-> 7],
    [key |-> "ch1_antifrost_temp", data_key |-> "ch1_temperature_antifrost",
     min |-> 50, max |-> 150, step |-> 5, scale_fn |-> "x10",
     group |-> "ch1_settings", index |-> 6],
    [key |-> "ch1_hysteresis", data_key |-> "ch1_hysteresis",
     min |-> 5, max |-> 50, step |-> 5, scale_fn |-> "x10",
     group |-> "ch1_settings", index |-> 7],
    [key |-> "ch1_water_temp_min", data_key |-> "ch1_water_temp_min",
     min |-> 100, max |-> 500, step |-> 10, scale_fn |-> "x10",
     group |-> "ch1_settings", index |-> 9],
    [key |-> "ch1_water_temp_max", data_key |-> "ch1_water_temp_max",
     min |-> 200, max |-> 900, step |-> 10, scale_fn |-> "x10",
     group |-> "ch1_settings", index |-> 10],
    [key |-> "ch1_equitherm_slope", data_key |-> "ch1_equitherm_slope",
     min |-> 0, max |-> 100, step |-> 1, scale_fn |-> "x10",
     group |-> "ch1_settings", index |-> 12],
    [key |-> "ch1_equitherm_offset", data_key |-> "ch1_equitherm_offset",
     min |-> -200, max |-> 200, step |-> 5, scale_fn |-> "signed",
     group |-> "ch1_settings", index |-> 13],
    [key |-> "ch1_equitherm_room_effect", data_key |-> "ch1_equitherm_room_effect",
     min |-> 0, max |-> 1000, step |-> 50, scale_fn |-> "int",
     group |-> "ch1_settings", index |-> 14],
    [key |-> "ch1_threshold_setpoint", data_key |-> "ch1_threshold_setpoint",
     min |-> 200, max |-> 900, step |-> 10, scale_fn |-> "x10",
     group |-> "ch1_settings", index |-> 15],
    [key |-> "ch1_limit_heat_temp", data_key |-> "ch1_limit_heat_temp",
     min |-> 0, max |-> 100, step |-> 5, scale_fn |-> "x10",
     group |-> "ch1_settings", index |-> 16],
    [key |-> "ch1_temp_correction", data_key |-> "ch1_temp_correction",
     min |-> -50, max |-> 50, step |-> 5, scale_fn |-> "signed",
     group |-> "ch1_settings", index |-> 19],
    [key |-> "ch1_humidity_correction", data_key |-> "ch1_humidity_correction",
     min |-> -200, max |-> 200, step |-> 10, scale_fn |-> "signed",
     group |-> "ch1_settings", index |-> 20],
    [key |-> "ch2_antifrost_temp", data_key |-> "ch2_temperature_antifrost",
     min |-> 50, max |-> 150, step |-> 5, scale_fn |-> "x10",
     group |-> "ch2_settings", index |-> 6],
    [key |-> "ch2_hysteresis", data_key |-> "ch2_hysteresis",
     min |-> 5, max |-> 50, step |-> 5, scale_fn |-> "x10",
     group |-> "ch2_settings", index |-> 7],
    [key |-> "ch2_water_temp_min", data_key |-> "ch2_water_temp_min",
     min |-> 100, max |-> 500, step |-> 10, scale_fn |-> "x10",
     group |-> "ch2_settings", index |-> 9],
    [key |-> "ch2_water_temp_max", data_key |-> "ch2_water_temp_max",
     min |-> 200, max |-> 900, step |-> 10, scale_fn |-> "x10",
     group |-> "ch2_settings", index |-> 10],
    [key |-> "ch2_equitherm_slope", data_key |-> "ch2_equitherm_slope",
     min |-> 0, max |-> 100, step |-> 1, scale_fn |-> "x10",
     group |-> "ch2_settings", index |-> 12],
    [key |-> "ch2_equitherm_offset", data_key |-> "ch2_equitherm_offset",
     min |-> -200, max |-> 200, step |-> 5, scale_fn |-> "signed",
     group |-> "ch2_settings", index |-> 13],
    [key |-> "ch2_equitherm_room_effect", data_key |-> "ch2_equitherm_room_effect",
     min |-> 0, max |-> 1000, step |-> 50, scale_fn |-> "int",
     group |-> "ch2_settings", index |-> 14],
    [key |-> "ch2_threshold_setpoint", data_key |-> "ch2_threshold_setpoint",
     min |-> 200, max |-> 900, step |-> 10, scale_fn |-> "x10",
     group |-> "ch2_settings", index |-> 15],
    [key |-> "ch2_limit_heat_temp", data_key |-> "ch2_limit_heat_temp",
     min |-> 0, max |-> 100, step |-> 5, scale_fn |-> "x10",
     group |-> "ch2_settings", index |-> 16],
    [key |-> "ch2_temp_correction", data_key |-> "ch2_temp_correction",
     min |-> -50, max |-> 50, step |-> 5, scale_fn |-> "signed",
     group |-> "ch2_settings", index |-> 19],
    [key |-> "ch2_humidity_correction", data_key |-> "ch2_humidity_correction",
     min |-> -200, max |-> 200, step |-> 10, scale_fn |-> "signed",
     group |-> "ch2_settings", index |-> 20] }

NumberDescription(key) == CHOOSE d \in NUMBER_TYPES : d.key = key
\* the values of [min, max] at the description's step
NativeValues(d) ==
  { [num |-> d.min + n * d.step, den |-> 10] :
      n \in 0..((d.max - d.min) \div d.step) }

\* every value of [min, max] in hundredths
AnyNativeValues(d) ==
  { [num |-> n, den |-> 100] : n \in (d.min * 10)..(d.max * 10) }

\* the sizes of the settings groups read_all_data stores
GroupLength(group) ==
  CASE group = "regulation_settings" -> 11
    [] group = "boiler_settings" -> 13
    [] group = "dhw_settings" -> 8
    [] group = "ch1_settings" -> 20
    [] group = "ch2_settings" -> 20

\* async_set_native_value: scaled_value = scale_fn(value), the value that
\* write_register is called with
NumberScale ==
  /\ pc["job"] = "idle"
  /\ number_key # "none"
  /\ jval' = ScaleFn(NumberDescription(number_key).scale_fn, native_value)
  /\ Goto("job", "number_written")
  /\ UNCHANGED <<clientVars, ret, busy, wire, api, authSeen, hsResp, jaddr, refresh,
                 isEntity, flow, number_key, native_value, callVars, pollVars, envVars>>

\* the next poll reads the register back (the other registers of its group
\* as zeros), and _process_raw_data decodes the group
NumberReadBack ==
  /\ pc["job"] = "number_written"
  /\ LET d == NumberDescription(number_key) IN
       raw_data' = (d.group :> [i \in 1..GroupLength(d.group) |->
                                 IF i = d.index THEN jval ELSE 0])
  /\ processed' = ProcessRawData(raw_data')
  /\ pres' = "data"
  /\ Goto("job", "number_read")
  /\ UNCHANGED <<clientVars, ret, busy, wire, api, authSeen, hsResp, jobVars, batch, rk,
                 meta, ch2_available, envVars>>

\* --------------------------------------------- decoding sampled registers
\* Register values a group is filled with: both ends of the range, both
\* sides of the sign bit, and the values of the repository's tests.
SampleRegisters == {0, 1, 15, 300, 32767, 32768, 65511, 65518, 65535}
SampleGroups ==
  ("system_status" :> 2) @@ ("regulation" :> 3) @@ ("boiler_status" :> 10)
  @@ ("dhw_status" :> 2) @@ ("ch1_status" :> 7) @@ ("ch2_status" :> 7)
  @@ ("regulation_settings" :> 11) @@ ("boiler_settings" :> 13)
  @@ ("dhw_settings" :> 8) @@ ("ch1_settings" :> 20) @@ ("ch2_settings" :> 20)
  @@ ("system_control" :> 10)
\* a group whose first register holds v, the next v + 1, ... (16 bits wide)
SampleRaw(group, v) ==
  group :> [i \in 1..SampleGroups[group] |-> (v + i - 1) % 65536]
\* the sizes of all groups read_all_data stores
GroupSizes ==
  ("device_info" :> 11) @@ ("network_info" :> 6) @@ ("system_alerts" :> 2) @@ SampleGroups
\* the first n registers of a group
TruncatedRaw(group, n) == group :> [i \in 1..n |-> 300 + i]
\* a group cut anywhere from nothing to its full size, alone or next to
\* another group of full size
TruncatedInputs ==
  { TruncatedRaw(g, n) : g \in DOMAIN GroupSizes, n \in 0..MaxGroupSize }
  \cup { TruncatedRaw(g, n) @@ TruncatedRaw(h, GroupSizes[h]) :
           g \in DOMAIN GroupSizes, n \in 0..MaxGroupSize, h \in DOMAIN GroupSizes }
DecodeInputs ==
  { SampleRaw(g, v) : g \in DOMAIN SampleGroups, v \in SampleRegisters }
  \cup { "regulation" :> <<2, 65511, 65518>>,
         "ch1_status" :> <<0, 215, 400, 350, 300, 550, 4500>>,
         "device_info" :> <<1, 2, 0, 0, 258, 3, 17, 8755, 17493, 773, 7>> }
  \cup { "device_info" :> [i \in 1..GroupSizes["device_info"] |->
                             (v + 4919 * (i - 1)) % 65536] : v \in SampleRegisters }
  \cup TruncatedInputs

\* _process_raw_data applied to the sampled group
ProcessSample ==
  /\ pc["poll"] = "idle"
  /\ pres = "none"
  /\ raw_data # EmptyDict
  /\ processed' = ProcessRawData(raw_data)
  /\ meta' = ProcessDeviceInfo(raw_data, meta)
  /\ pres' = "data"
  /\ UNCHANGED <<clientVars, threadVars, jobVars, batch, raw_data, rk, ch2_available,
                 envVars>>

\* ------------------------------------------ scaling.py helpers on their own
\* the helper a call names, applied to its argument
Apply(fn, arg) ==
  CASE fn = "to_signed_int16" -> Returned(to_signed_int16(arg))
    [] fn = "to_unsigned_int16" -> Returned(to_unsigned_int16(arg))
    [] fn = "scale_signed_temperature" -> Returned(scale_signed_temperature(arg))
    [] fn = "unscale_signed_temperature" -> Returned(unscale_signed_temperature(arg))
    [] fn = "registers_to_ip" -> Returned(registers_to_ip(arg[1], arg[2]))
    [] fn = "ip_to_registers" -> ip_to_registers(arg)

\* the helper of the opposite direction
Inverse(fn) ==
  CASE fn = "to_signed_int16" -> "to_unsigned_int16"
    [] fn = "to_unsigned_int16" -> "to_signed_int16"
    [] fn = "scale_signed_temperature" -> "unscale_signed_temperature"
    [] fn = "unscale_signed_temperature" -> "scale_signed_temperature"
    [] fn = "registers_to_ip" -> "ip_to_registers"
    [] fn = "ip_to_registers" -> "registers_to_ip"

\* the helper is called with the argument
CallHelper ==
  /\ fn_call.fn # "none"
  /\ fn_result = <<>>
  /\ fn_result' = <<Apply(fn_call.fn, fn_call.arg)>>
  /\ UNCHANGED <<clientVars, threadVars, jaddr, jval, refresh, isEntity, flow, number_key,
                 native_value, fn_call, pollVars, envVars>>

\* what the helper returned is handed to the helper of the opposite
\* direction
CallInverse ==
  /\ Len(fn_result) = 1
  /\ fn_result[1].raised = "none"
  /\ fn_result' = Append(fn_result, Apply(Inverse(fn_call.fn), fn_result[1].value))
  /\ UNCHANGED <<clientVars, threadVars, jaddr, jval, refresh, isEntity, flow, number_key,
                 native_value, fn_call, pollVars, envVars>>

\* the values of a register, and of a signed 16-bit number
Registers == 0..65535
SignedValues == -32768..32767
\* temperatures handed to unscale_signed_temperature, in tenths
SampleTenths == {-32768, -400, -20, -1, 0, 1, 215, 32767}

\* the parts an address string is put together from: octets, numbers out of
\* range, and parts that are no plain number
IpParts ==
  { <<"0">>, <<"1">>, <<"1", "0", "0">>, <<"1", "6", "8">>, <<"1", "9", "2">>,
    <<"2", "5", "5">>, <<"2", "5", "6">>, <<"-", "1">>, <<"x">>, <<>>, <<" ", "1">> }
FewIpParts == { <<"1">>, <<"2", "5", "5">>, <<"x">> }
\* four parts of any kind, or any other number of parts
IpStrings ==
  { Join(q, ".") : q \in [1..4 -> IpParts] }
  \cup UNION { { Join(q, ".") : q \in [1..n -> FewIpParts] } : n \in 1..MaxIpParts }
\* registers an address is made of; 49320 and 356 are 192.168.1.100
IpRegisters == SampleRegisters \cup {356, 49320}

\* ------------------------------------------- coordinator: _fetch_data

\* mutant: only error responses are handled, a raised exception escapes
EscapesException(o) == o = "exception"

\* read_input_registers / read_holding_registers catch ModbusException and
\* Exception alike: nothing escapes into read_all_data
Escapes(o) == FALSE

\* mutant: the result of connect() is not looked at
ConnectFailedNever(r) == FALSE

\* mutant: only a missing result counts as a failed connect()
ConnectFailedOnNone(r) == r = "None"

\* if not self.client.connect(): raise UpdateFailed
ConnectFailed(r) == r # "True"

\* mutant: the poll fails as soon as the first batch is missing
NoDataWithoutDeviceInfo(raw) == ~Has(raw, "device_info")

\* if not raw_data: raise UpdateFailed("No data received from device")
NoData(raw) == raw = EmptyDict

PollStart ==
  /\ pc["poll"] = "idle"
  /\ pollsLeft > 0
  /\ pollsLeft' = pollsLeft - 1
  /\ Goto("poll", "connect")
  /\ UNCHANGED <<clientVars, ret, busy, wire, api, authSeen, hsResp, jobVars, pollVars,
                 faults, down>>

\* the connect() of _fetch_data is outside the try: when it fails the poll
\* raises UpdateFailed at once, and the finally clause is not entered
FetchConnected ==
  /\ pc["poll"] = "connect_ret"
  /\ IF ConnectFailed(ret["poll"])
       THEN /\ pres' = "UpdateFailed"
            /\ Goto("poll", "done")
            /\ UNCHANGED <<api, rk>>
       ELSE /\ Called("poll", "read_all_data")
            /\ rk' = 1
            /\ Goto("poll", "read")
            /\ UNCHANGED pres
  /\ UNCHANGED <<clientVars, ret, busy, wire, authSeen, hsResp, jobVars, batch, raw_data,
                 processed, meta, ch2_available, envVars>>

\* read_all_data: the next read of the plan goes out
ReadSend ==
  /\ pc["poll"] = "read"
  /\ rk <= NumReads
  /\ Send("poll", PlanRequest(rk))
  /\ Goto("poll", "read_wait")
  /\ UNCHANGED <<clientVars, ret, api, authSeen, hsResp, jobVars, pollVars, envVars>>

\* read_all_data: the read's result, and the statements up to the next read.
\* The device fails single reads (at most `faults` of them) or stops
\* answering for the rest of the poll.
ReadRecv ==
  /\ pc["poll"] = "read_wait"
  /\ \E o \in Outcomes, regs \in DeviceContents(rk), d \in {"never", "no", "yes"} :
       /\ down = "never" <=> d = "never"
       /\ down = "yes" => d = "yes"
       /\ d = "yes" => o # "ok"
       /\ (o # "ok" /\ d # "yes") => faults > 0
       /\ faults' = IF o # "ok" /\ d # "yes" THEN faults - 1 ELSE faults
       /\ down' = d
       /\ Recv("poll")
       /\ sockOpen' = SockAfter(o)
       /\ IF Escapes(o)
            THEN /\ pres' = "UpdateFailed"
                 /\ Goto("poll", "close")
                 /\ UNCHANGED <<batch, raw_data, rk>>
            ELSE /\ batch' = [batch EXCEPT ![rk] = ReadResult(o, regs)]
                 /\ raw_data' = Merge(rk, raw_data, batch')
                 /\ rk' = NextRead(rk, raw_data')
                 /\ Goto("poll", "read")
                 /\ UNCHANGED pres
  /\ UNCHANGED <<authenticated, devUnlocked, ret, wire, api, authSeen, hsResp, jobVars,
                 processed, meta, ch2_available, pollsLeft>>

\* _fetch_data after read_all_data returned: an empty mapping is a failure,
\* anything else is processed; then the finally clause
FetchProcess ==
  /\ pc["poll"] = "read"
  /\ rk > NumReads
  /\ IF NoData(raw_data)
       THEN /\ pres' = "UpdateFailed"
            /\ UNCHANGED <<processed, meta, ch2_available>>
       ELSE /\ pres' = "data"
            /\ processed' = ProcessRawData(raw_data)
            /\ meta' = ProcessDeviceInfo(raw_data, meta)
            /\ ch2_available' = Get(raw_data, "ch2_available", FALSE)
  /\ Goto("poll", "close")
  /\ UNCHANGED <<clientVars, ret, busy, wire, api, authSeen, hsResp, jobVars, batch,
                 raw_data, rk, envVars>>

\* the finally clause is over: the poll returns its snapshot or raises
FetchEnd ==
  /\ pc["poll"] = "close_ret"
  /\ Goto("poll", "done")
  /\ UNCHANGED <<clientVars, ret, busy, wire, api, authSeen, hsResp, jobVars, pollVars,
                 envVars>>

\* the executor job is over; its locals are gone
PollReset ==
  /\ pc["poll"] = "done"
  /\ Forget("poll")
  /\ batch' = [k \in 1..NumReads |-> NoneResult]
  /\ raw_data' = EmptyDict
  /\ processed' = EmptyDict
  /\ rk' = 0
  /\ pres' = "none"
  /\ down' = IF down = "never" THEN "never" ELSE "no"
  /\ UNCHANGED <<clientVars, busy, jobVars, meta, ch2_available, faults, pollsLeft>>

\* ------------------------------------------------------- specifications
InitAll(f, p, d, raw, key, value, call) ==
  /\ sockOpen = FALSE
  /\ authenticated = FALSE
  /\ devUnlocked = FALSE
  /\ pc = [t \in Threads |-> "idle"]
  /\ ret = [t \in Threads |-> "none"]
  /\ busy = {}
  /\ wire = [t \in Threads |-> <<>>]
  /\ api = [t \in Threads |-> <<>>]
  /\ jaddr = 0
  /\ jval = 0
  /\ authSeen = [t \in Threads |-> FALSE]
  /\ hsResp = [t \in Threads |-> "none"]
  /\ refresh = FALSE
  /\ isEntity = FALSE
  /\ flow = "none"
  /\ number_key = key
  /\ native_value = value
  /\ fn_call = call
  /\ fn_result = <<>>
  /\ batch = [k \in 1..NumReads |-> NoneResult]
  /\ raw_data = raw
  /\ processed = EmptyDict
  /\ rk = 0
  /\ pres = "none"
  /\ meta = NoMeta
  /\ ch2_available = FALSE
  /\ faults = f
  /\ down = d
  /\ pollsLeft = p

\* the state after construction: nothing read, no number being set
NoValue == [num |-> 0, den |-> 1]
NoCall == [fn |-> "none", arg |-> 0]
InitWith(f, p, d) == InitAll(f, p, d, EmptyDict, "none", NoValue, NoCall)

\* The integration as it runs: polls and entity handlers are executor jobs
\* on the host's thread pool and share coordinator.client.
Init == InitWith(MaxFaults, MaxPolls, "never")
Next ==
  \/ PollStart
  \/ connect("poll")
  \/ connect_auth("poll")
  \/ FetchConnected
  \/ ReadSend
  \/ ReadRecv
  \/ FetchProcess
  \/ close("poll")
  \/ FetchEnd
  \/ PollReset
  \/ EntityWrite
  \/ write_register
  \/ write_auth
  \/ write_send
  \/ write_data
  \/ EntityReturn
Spec == Init /\ [][Next]_vars

\* One caller at a time: any sequence of polls, entity writes and direct
\* calls of the client's public methods, each run to its end.
SeqPollStart == pc["job"] = "idle" /\ PollStart
SeqEntityWrite == pc["poll"] = "idle" /\ EntityWrite
SeqDirectCall == pc["poll"] = "idle" /\ DirectCall
NextClient ==
  \/ SeqPollStart
  \/ SeqEntityWrite
  \/ SeqDirectCall
  \/ \E t \in Threads : connect(t)
  \/ \E t \in Threads : connect_auth(t)
  \/ \E t \in Threads : close(t)
  \/ write_register
  \/ write_auth
  \/ write_send
  \/ write_data
  \/ read_holding_registers
  \/ read_holding_result
  \/ read_input_registers
  \/ read_input_result
  \/ EntityReturn
  \/ DirectReturn
  \/ ConfigFlowStart
  \/ ConfigFlowConnected
  \/ ConfigFlowRead
  \/ ConfigFlowClosed
  \/ ConfigFlowEnd
  \/ FetchConnected
  \/ ReadSend
  \/ ReadRecv
  \/ FetchProcess
  \/ FetchEnd
  \/ PollReset
SpecClient == InitWith(MaxFaults, MaxPolls, "never") /\ [][NextClient]_vars

\* One poll on its own: up to MaxPlanFaults single reads fail, and the device
\* may stop answering at any read.
NextReadAll ==
  \/ PollStart
  \/ connect("poll")
  \/ connect_auth("poll")
  \/ FetchConnected
  \/ ReadSend
  \/ ReadRecv
  \/ FetchProcess
  \/ close("poll")
  \/ FetchEnd
  \/ PollReset
SpecReadAll == InitWith(MaxPlanFaults, 1, "no") /\ [][NextReadAll]_vars

\* Polls one after the other on the coordinator's client: what one poll
\* leaves in the coordinator (metadata, CH2 flag) and in the client is what
\* the next one finds.
NextPolls ==
  \/ PollStart
  \/ connect("poll")
  \/ connect_auth("poll")
  \/ FetchConnected
  \/ ReadSend
  \/ ReadRecv
  \/ FetchProcess
  \/ close("poll")
  \/ FetchEnd
  \/ PollReset
SpecPolls == InitWith(MaxSeqFaults, MaxSeqPolls, "no") /\ [][NextPolls]_vars


\* _process_raw_data on its own: one group of raw_data holding sampled
\* register values is decoded.
InitDecode == \E raw \in DecodeInputs : InitAll(0, 0, "never", raw, "none", NoValue, NoCall)
NextDecode ==
  \/ ProcessSample
SpecDecode == InitDecode /\ [][NextDecode]_vars

\* A number entity's value on its way out and back: scaled by the
\* description's scale_fn, then decoded as the coordinator decodes the field.
InitNumber ==
  \E d \in NUMBER_TYPES : \E x \in NativeValues(d) :
    InitAll(0, 0, "never", EmptyDict, d.key, x, NoCall)
NextNumber ==
  \/ NumberScale
  \/ NumberReadBack
SpecNumber == InitNumber /\ [][NextNumber]_vars

\* The same with any value of [min, max] in hundredths: the entity checks
\* the range of the value it is given, not its step.
InitNumberAny ==
  \E d \in NUMBER_TYPES : \E x \in AnyNativeValues(d) :
    /\ d.scale_fn = "signed"
    /\ InitAll(0, 0, "never", EmptyDict, d.key, x, NoCall)
NextNumberAny ==
  \/ NumberScale
  \/ NumberReadBack
SpecNumberAny == InitNumberAny /\ [][NextNumberAny]_vars

\* The signed helpers of scaling.py applied to every 16-bit value, and the
\* inverse helper to what they return.
InitSigned16 ==
  \/ \E r \in Registers, fn \in {"to_signed_int16", "scale_signed_temperature"} :
       InitAll(0, 0, "never", EmptyDict, "none", NoValue, [fn |-> fn, arg |-> r])
  \/ \E v \in SignedValues :
       InitAll(0, 0, "never", EmptyDict, "none", NoValue,
               [fn |-> "to_unsigned_int16", arg |-> v])
  \/ \E n \in SampleTenths :
       InitAll(0, 0, "never", EmptyDict, "none", NoValue,
               [fn |-> "unscale_signed_temperature", arg |-> [num |-> n, den |-> 10]])
NextSigned16 ==
  \/ CallHelper
  \/ CallInverse
SpecSigned16 == InitSigned16 /\ [][NextSigned16]_vars

\* The address helpers of scaling.py applied to register pairs and to
\* address strings, well-formed or not.
InitIp ==
  \/ \E r0 \in IpRegisters, r1 \in IpRegisters :
       InitAll(0, 0, "never", EmptyDict, "none", NoValue,
               [fn |-> "registers_to_ip", arg |-> <<r0, r1>>])
  \/ \E ip \in IpStrings :
       InitAll(0, 0, "never", EmptyDict, "none", NoValue,
               [fn |-> "ip_to_registers", arg |-> ip])
NextIp ==
  \/ CallHelper
  \/ CallInverse
SpecIp == InitIp /\ [][NextIp]_vars

\* ------------------------------------------------------------- properties

WriteReturned == pc["job"] = "write_ret"
HandshakeRefused(t) == hsResp[t] \in {"error", "malformed", "exception"}
CloseCalled(t) == \E i \in 1..Len(api[t]) : api[t][i] = "close"
ReadAllCalled == \E i \in 1..Len(api["poll"]) : api["poll"][i] = "read_all_data"
\* read_all_data is over (it returned, or an exception left it)
ReadAllDone == pc["poll"] \in {"close", "close_ret", "done"} /\ ReadAllCalled
LastRequest(t) == wire[t][Len(wire[t])]
HoldingReadOutstanding(t) ==
  /\ t \in busy
  /\ wire[t] # <<>>
  /\ LastRequest(t).kind = "holding"
  /\ Protected(LastRequest(t).addr)
ConnectSucceeded(t) == pc[t] = "connect_ret" /\ ret[t] = "True"
IssuedReads == SelectSeq(wire["poll"], LAMBDA r : r.kind \in {"input", "holding"})
PlannedReads(d) ==
  LET ks == SelectSeq([k \in 1..NumReads |-> k],
                      LAMBDA k : k # Ch2SettingsRead \/ Get(d, "ch2_available", FALSE))
  IN [i \in 1..Len(ks) |-> PlanRequest(ks[i])]

\* C1 as stated: a write_register to a protected address sends exactly one
\* handshake before the data write when the session was not authenticated
\* and none when it was, and in both cases the data write is sent.
C1_HandshakeThenDataWrite ==
  (WriteReturned /\ Protected(jaddr)) =>
    wire["job"] = IF authSeen["job"]
                    THEN <<DataWrite(jaddr, jval)>>
                    ELSE <<Handshake, DataWrite(jaddr, jval)>>

\* C1 amended: a write_register to a protected address sends exactly one
\* handshake, first, when the session was not authenticated, and none when
\* it was; the data write follows the handshake whenever the handshake is
\* accepted (and is the only request when none was needed); when the
\* handshake is refused the handshake is the only request.
C1_HandshakeOnceThenDataWrite ==
  (WriteReturned /\ Protected(jaddr)) =>
    wire["job"] = IF authSeen["job"]
                    THEN <<DataWrite(jaddr, jval)>>
                    ELSE IF hsResp["job"] = "ok"
                           THEN <<Handshake, DataWrite(jaddr, jval)>>
                           ELSE <<Handshake>>
C1_Witness ==
  /\ WriteReturned
  /\ Protected(jaddr)
  /\ ~authSeen["job"]
  /\ wire["job"] = <<Handshake, DataWrite(jaddr, jval)>>

\* C2: when the handshake of a write_register to a protected address fails
\* (error response, response without function code, exception), the call
\* returns False, the data write is not sent, and _authenticated stays false.
C2_FailedHandshakeFailsWrite ==
  (WriteReturned /\ HandshakeRefused("job")) =>
    /\ ret["job"] = "False"
    /\ wire["job"] = <<Handshake>>
    /\ ~authenticated
C2_Witness ==
  /\ WriteReturned
  /\ Protected(jaddr)
  /\ hsResp["job"] = "malformed"
  /\ ret["job"] = "False"

\* C3: no poll ends with the socket open and close() not called: the
\* connection is released on every exit path of _fetch_data, the failed
\* connect() after a successful socket connect included.
C3_PollReleasesConnection ==
  (pc["poll"] = "done" /\ sockOpen) => CloseCalled("poll")

\* C4: once close() has returned, whatever the underlying close did, the
\* client's authentication state is false.
C4_CloseDiscardsAuthentication ==
  \A t \in Threads : pc[t] = "close_ret" => ~authenticated

\* C5 as stated: a read of protected holding registers, called directly or
\* from read_all_data, is outstanding only while _authenticated is true.
C5_ProtectedReadsAuthenticated ==
  \A t \in Threads : HoldingReadOutstanding(t) => authenticated

\* C5 amended: the holding-register reads of read_all_data inside a poll
\* are outstanding only while _authenticated is true, because connect() did
\* the handshake; read_holding_registers itself neither checks nor changes
\* the authentication state and sends nothing but the read.
C5_PollReadsAuthenticated ==
  /\ HoldingReadOutstanding("poll") => authenticated
  /\ pc["job"] \in {"read_wait", "read_ret"} =>
       /\ wire["job"] = <<HoldingRead(jaddr, 1)>>
       /\ authenticated = authSeen["job"]
C5_Witness == HoldingReadOutstanding("poll") /\ authenticated

\* C6 as stated: a successful connect() leaves the session unauthenticated
\* and has sent no handshake.
C6_ConnectLeavesUnauthenticated ==
  \A t \in Threads : ConnectSucceeded(t) => (~authenticated /\ wire[t] = <<>>)

\* C6 amended: a successful connect() leaves the session connected and
\* authenticated: connect() itself sends the handshake, exactly once when
\* _authenticated was false and not at all when it was true, and succeeds
\* only when the handshake was accepted.
C6_ConnectAuthenticates ==
  \A t \in Threads :
    ConnectSucceeded(t) =>
      /\ sockOpen
      /\ authenticated
      /\ wire[t] = IF authSeen[t] THEN <<>> ELSE <<Handshake>>
      /\ ~HandshakeRefused(t)
C6_Witness ==
  /\ ConnectSucceeded("poll")
  /\ wire["poll"] = <<Handshake>>
  /\ authenticated

\* C7: an entity handler's write is a scoped acquisition: by the time the
\* handler ends it has called connect() first and close() last.
C7_WriteIsScopedAcquisition ==
  [][(pc["job"] = "write_ret" /\ isEntity /\ pc["job"]' = "idle") =>
       (/\ Head(api["job"]) = "connect"
        /\ api["job"][Len(api["job"])] = "close")]_vars

\* C8: at most one Modbus request is outstanding on the client at any time.
\* The repository adds no lock of its own; a request is modelled as a send
\* and a receive of the transport, whose own locking is not in the source.
C8_SingleOutstandingTransaction == Cardinality(busy) <= 1

\* C9: read_all_data runs to its return statement whatever the reads do,
\* and has then issued every read of the plan, in order (the CH2 settings
\* read exactly when the probe reported the circuit).
C9_ReadAllNeverAborts ==
  ReadAllDone => (rk > NumReads /\ IssuedReads = PlannedReads(raw_data))
C9_Witness ==
  /\ ReadAllDone
  /\ ~Truthy(batch[1])
  /\ Truthy(batch[NumReads])

\* C10: a batch group is in the result exactly when the read of its own
\* registers succeeded (groups read by one request of the plan).
OwnRead ==
  ("device_info" :> 1) @@ ("network_info" :> 1) @@ ("system_status" :> 2)
  @@ ("regulation" :> 3) @@ ("boiler_status" :> 4) @@ ("dhw_status" :> 5)
  @@ ("ch1_status" :> 6) @@ ("system_alerts" :> 8) @@ ("ethernet_config" :> 9)
  @@ ("boiler_settings" :> 12) @@ ("ch1_settings" :> 15) @@ ("system_control" :> 17)
C10_GroupsFollowOwnRead ==
  ReadAllDone =>
    \A g \in DOMAIN OwnRead : Has(raw_data, g) <=> Truthy(batch[OwnRead[g]])

\* C11 as stated: when the read of the first part of a settings group failed
\* (1030..1035, 1100..1104), no field of that part is in the snapshot.
C11_NoSynthesizedDefaults ==
  pres = "data" =>
    /\ ~Truthy(batch[10]) =>
         {"regulation_mode_user", "outdoor_temp_source", "changeover_temp"}
           \cap DOMAIN processed = {}
    /\ ~Truthy(batch[13]) =>
         {"dhw_mode", "dhw_temperature_desired"} \cap DOMAIN processed = {}

ProbeRegs == batch[ProbeRead].regs
ProbeJudged == ReadAllCalled /\ rk > ProbeRead /\ Truthy(batch[ProbeRead])
Ch2SettingsIssued ==
  \E i \in 1..Len(wire["poll"]) : wire["poll"][i] = HoldingRead(1300, 20)
ProbeDecides(absent) ==
  ProbeJudged =>
    /\ raw_data["ch2_available"] = ~absent
    /\ Has(raw_data, "ch2_status") <=> ~absent
    /\ rk > Ch2SettingsRead => (Ch2SettingsIssued <=> ~absent)

\* C12 as stated: the flag derived from the probe is false exactly when the
\* probe is all zeros or all 0xFFFF; any other content, a mix of 0 and
\* 0xFFFF included, sets it true, stores ch2_status and enables the read of
\* the CH2 settings.
C12_AbsentWhenUniform ==
  ProbeDecides((\A i \in 1..7 : ProbeRegs[i] = 0) \/ (\A i \in 1..7 : ProbeRegs[i] = 65535))

\* C12 amended: the flag is false exactly when every register of the probe
\* is 0 or 0xFFFF (a mix of the two included); a probe with at least one
\* other value sets it true, stores ch2_status and enables the read of the
\* CH2 settings.
C12_AbsentWhenEveryRegisterUnset ==
  ProbeDecides(\A i \in 1..7 : ProbeRegs[i] \in {0, 65535})
C12_Witness ==
  /\ ReadAllDone
  /\ Truthy(batch[ProbeRead])
  /\ ProbeRegs[1] = 0
  /\ ProbeRegs[2] = 65535
  /\ raw_data["ch2_available"] = FALSE
  /\ ~Ch2SettingsIssued

ProbeFound ==
  /\ Truthy(batch[ProbeRead])
  /\ \E i \in 1..7 : ProbeRegs[i] \notin {0, 65535}
ProbeBeforeSettings ==
  \A i \in 1..Len(wire["poll"]) :
    wire["poll"][i] = HoldingRead(1300, 20) =>
      \E j \in 1..(i - 1) : wire["poll"][j] = InputRead(300, 7)
PollOver == pc["poll"] = "done" /\ ReadAllCalled
\* no batch of the poll could be stored: the four reads of the first batch
\* did not all succeed and every other read failed
NothingStored ==
  /\ ~(Truthy(batch[1]) /\ Truthy(batch[2]) /\ Truthy(batch[3]) /\ Truthy(batch[4]))
  /\ \A k \in 5..NumReads : ~Truthy(batch[k])

\* C13 as stated: the CH2 settings are read only after the probe of the same
\* poll succeeded and found the circuit; when the probe failed or found
\* nothing, no read at 1300 was issued, ch2_settings is absent, and the
\* coordinator's flag is false when the poll is over.
C13_SettingsOnlyAfterProbe ==
  /\ Ch2SettingsIssued => (ProbeFound /\ ProbeBeforeSettings)
  /\ (PollOver /\ ~ProbeFound) =>
       /\ ~Ch2SettingsIssued
       /\ ~Has(raw_data, "ch2_settings")
       /\ ~ch2_available

\* C13 amended: the CH2 settings are read only after the probe of the same
\* poll succeeded and found the circuit; when the probe failed or found
\* nothing, no read at 1300 was issued and ch2_settings is absent; the
\* coordinator's flag is false when the poll returned a snapshot, and the
\* poll fails only when no batch at all could be stored (the flag then
\* keeps the value the previous poll left).
C13_SettingsOnlyAfterProbeFlagOnSnapshot ==
  /\ Ch2SettingsIssued => (ProbeFound /\ ProbeBeforeSettings)
  /\ (PollOver /\ ~ProbeFound) =>
       /\ ~Ch2SettingsIssued
       /\ ~Has(raw_data, "ch2_settings")
       /\ pres = "data" => ~ch2_available
       /\ pres = "UpdateFailed" => NothingStored
C13_Witness ==
  /\ PollOver
  /\ ~Truthy(batch[ProbeRead])
  /\ pres = "UpdateFailed"
  /\ ch2_available

\* C14 as stated: once connect() succeeded the poll returns a snapshot and
\* does not raise UpdateFailed, whatever reads fail.
C14_ReadFailuresNeverFailPoll ==
  PollOver => pres = "data"

\* C14 amended: once connect() succeeded the poll returns a snapshot for
\* every combination of failing reads but one: it raises UpdateFailed
\* exactly when no batch at all could be stored (the four reads of the first
\* batch did not all succeed and every other read failed).
C14_PollFailsOnlyWithoutData ==
  PollOver => (pres = IF NothingStored THEN "UpdateFailed" ELSE "data")
C14_Witness ==
  /\ PollOver
  /\ pres = "data"
  /\ ~Truthy(batch[1])
  /\ ~Truthy(batch[5])
  /\ ~Truthy(batch[NumReads])

\* C15: when connect() returns false the poll raises UpdateFailed at once:
\* no register read is issued, read_all_data is not called, and the
\* coordinator's device metadata and CH2 flag are what they were when the
\* poll began.
C15_FailedConnectAbortsPoll ==
  [][/\ (pc["poll"] = "connect_ret" /\ ret["poll"] # "True"
          /\ pc'["poll"] # "connect_ret") =>
          /\ pc'["poll"] = "done"
          /\ pres' = "UpdateFailed"
          /\ IssuedReads' = <<>>
          /\ ~ReadAllCalled'
          /\ meta' = meta
          /\ ch2_available' = ch2_available
     /\ pc["poll"] \in {"idle", "connect", "connect_hs"} =>
          (meta' = meta /\ ch2_available' = ch2_available)]_vars
C15_Witness ==
  /\ pc["poll"] = "done"
  /\ pres = "UpdateFailed"
  /\ ~ReadAllCalled
  /\ HandshakeRefused("poll")
  /\ meta.known
  /\ ch2_available

EntityHandlerEnds == pc["job"] = "write_ret" /\ isEntity /\ pc'["job"] = "idle"
DataWrites(t) == SelectSeq(wire[t], LAMBDA r : r.kind = "data")

\* C16: an entity handler calls write_register once; at most one data write
\* for its register goes out, a failed write is not repeated, and the
\* refresh is requested exactly when write_register returned True.
C16_OneWriteRefreshOnSuccess ==
  [][EntityHandlerEnds =>
       /\ api["job"] = <<"write_register">>
       /\ DataWrites("job") \in {<<>>, <<DataWrite(jaddr, jval)>>}
       /\ ret["job"] = "False" => Len(wire["job"]) <= 2
       /\ refresh' = (ret["job"] = "True")]_vars
C16_Witness ==
  /\ pc["job"] = "write_ret"
  /\ isEntity
  /\ ret["job"] = "False"
  /\ wire["job"] = <<DataWrite(jaddr, jval)>>
  /\ api["job"] = <<"write_register">>

SecondClose(t) ==
  /\ pc[t] = "close"
  /\ pc'[t] = "close_ret"
  /\ api[t] # <<>>
  /\ api[t][Len(api[t])] = "close"
\* connect() on a client that is connected and authenticated returns True,
\* keeps it so and sends nothing
RepeatedConnect ==
  \A t \in Threads :
    (pc[t] = "connect" /\ pc'[t] # "connect" /\ sockOpen /\ authenticated) =>
      /\ ret'[t] = "True"
      /\ sockOpen'
      /\ authenticated'
      /\ wire'[t] = wire[t]

SignedTenth(r) == [num |-> IF r > 32767 THEN r - 65536 ELSE r, den |-> 10]
Tenth(r) == [num |-> r, den |-> 10]
Decoded == pres = "data"
\* the snapshot's field key is the number `value(register)` of the register
\* at position index of group, whenever the group was decoded
DecodesAs(key, group, index, value(_)) ==
  (Decoded /\ Has(raw_data, group) /\ key \in DOMAIN processed) =>
    SameNumber(processed[key], value(raw_data[group][index]))

\* C18: every field declared signed is the two's complement of its register
\* divided by ten: (r - 65536)/10 above 32767, r/10 otherwise.
C18_SignedFieldsDecodeSigned ==
  /\ DecodesAs("outdoor_temp_damped", "regulation", 2, SignedTenth)
  /\ DecodesAs("outdoor_temp_composite", "regulation", 3, SignedTenth)
  /\ DecodesAs("changeover_temp", "regulation_settings", 5, SignedTenth)
  /\ DecodesAs("outdoor_temp_manual", "regulation_settings", 6, SignedTenth)
  /\ DecodesAs("boiler_outdoor_temp_correction", "boiler_settings", 3, SignedTenth)
  /\ DecodesAs("ch1_equitherm_offset", "ch1_settings", 13, SignedTenth)
  /\ DecodesAs("ch1_temp_correction", "ch1_settings", 19, SignedTenth)
  /\ DecodesAs("ch1_humidity_correction", "ch1_settings", 20, SignedTenth)
  /\ DecodesAs("ch2_equitherm_offset", "ch2_settings", 13, SignedTenth)
  /\ DecodesAs("ch2_temp_correction", "ch2_settings", 19, SignedTenth)
  /\ DecodesAs("ch2_humidity_correction", "ch2_settings", 20, SignedTenth)

\* |x - y| <= 1/10
WithinTenth(x, y) ==
  LET diff == x.num * y.den - y.num * x.den
      abs == IF diff >= 0 THEN diff ELSE -diff
  IN abs * 10 <= x.den * y.den

\* C19: for every number description and every value of its range at its
\* step, the value decoded from the register that scale_fn produced is the
\* value that was set, within 0.1.
C19_NumberRoundTrip ==
  pc["job"] = "number_read" =>
    /\ NumberDescription(number_key).data_key \in DOMAIN processed
    /\ WithinTenth(processed[NumberDescription(number_key).data_key], native_value)

\* C20: pump power (status position 4) and equitherm slope (settings
\* position 11) of both heating circuits are a tenth of their register, like
\* boiler_pump_power.
C20_CircuitFieldsScaled ==
  /\ DecodesAs("boiler_pump_power", "boiler_status", 7, Tenth)
  /\ DecodesAs("ch1_pump_power", "ch1_status", 5, Tenth)
  /\ DecodesAs("ch2_pump_power", "ch2_status", 5, Tenth)
  /\ DecodesAs("ch1_equitherm_slope", "ch1_settings", 12, Tenth)
  /\ DecodesAs("ch2_equitherm_slope", "ch2_settings", 12, Tenth)

\* the poll's raw data holds the device-info batch
DeviceInfoRead == Has(raw_data, "device_info")
\* the device metadata the coordinator reports after the poll
ReportedMetadata == meta

\* C21: processing is purely functional: the device metadata of a poll is
\* in its result under the key _device_meta, and a poll whose raw data has
\* no device-info batch reports no metadata kept from an earlier poll.
C21_ProcessingKeepsNoState ==
  pres = "data" =>
    /\ DeviceInfoRead => "_device_meta" \in DOMAIN processed
    /\ ~DeviceInfoRead => ~ReportedMetadata.known

\* the required register counts of the groups
RequiredCount ==
  ("device_info" :> 11) @@ ("network_info" :> 6) @@ ("system_status" :> 2)
  @@ ("regulation" :> 3) @@ ("boiler_status" :> 10) @@ ("dhw_status" :> 2)
  @@ ("ch1_status" :> 7) @@ ("ch2_status" :> 7) @@ ("system_alerts" :> 2)
  @@ ("regulation_settings" :> 6) @@ ("dhw_settings" :> 8)
  @@ ("ch1_settings" :> 20) @@ ("ch2_settings" :> 20) @@ ("system_control" :> 10)
\* what processing makes of one group of raw_data on its own
FieldsOf(g) == ProcessRawData(g :> raw_data[g])
TooShort(g) == g \in DOMAIN RequiredCount /\ Len(raw_data[g]) < RequiredCount[g]
LongEnough(g) == g \in DOMAIN RequiredCount /\ Len(raw_data[g]) >= RequiredCount[g]

\* C22: a group with fewer registers than its required count gives no field
\* (for the device-info batch: no metadata) and processing still ends with a
\* result; a group with the required count gives its fields; the result is
\* what the groups give one by one, so no group changes the fields of
\* another.
C22_ShortGroupsEmitNothing ==
  Decoded =>
    /\ \A g \in DOMAIN raw_data :
         /\ TooShort(g) => DOMAIN FieldsOf(g) = {}
         /\ LongEnough(g) /\ g # "device_info" => DOMAIN FieldsOf(g) # {}
         /\ \A k \in DOMAIN FieldsOf(g) : k \in DOMAIN processed /\ processed[k] = FieldsOf(g)[k]
    /\ \A k \in DOMAIN processed : \E g \in DOMAIN raw_data : k \in DOMAIN FieldsOf(g)
    /\ Has(raw_data, "device_info") => (meta.known <=> LongEnough("device_info"))

\* a short group was processed next to a group of full size
C22_Witness ==
  /\ Decoded
  /\ \E g \in DOMAIN raw_data : TooShort(g) /\ Len(raw_data[g]) = RequiredCount[g] - 1
  /\ \E h \in DOMAIN raw_data : LongEnough(h) /\ DOMAIN FieldsOf(h) # {}
  /\ DOMAIN processed # {}

\* a string is a decimal numeral: digits only, no leading zero
IsDecimal(s) ==
  /\ s # <<>>
  /\ \A i \in 1..Len(s) : IsDigit(s[i])
  /\ Len(s) > 1 => s[1] # "0"
\* a string is the decimal numeral of n
IsDecimalOf(s, n) == IsDecimal(s) /\ DigitsValue(s) = n
\* the number a decimal numeral stands for, as 16-bit halves <<high, low>>
RECURSIVE HalvesOf(_)
HalvesOf(s) ==
  IF s = <<>> THEN <<0, 0>>
  ELSE LET front == HalvesOf(SubSeq(s, 1, Len(s) - 1))
           low == front[2] * 10 + DigitValue(s[Len(s)])
       IN <<front[1] * 10 + low \div 65536, low % 65536>>
\* a string is two uppercase hexadecimal digits that make the byte b
IsHexPairOf(s, b) ==
  /\ Len(s) = 2
  /\ \E hi \in 1..16, lo \in 1..16 :
       s[1] = HexDigits[hi] /\ s[2] = HexDigits[lo] /\ b = (hi - 1) * 16 + lo - 1
\* a string is the numerals (or hexadecimal pairs) of ns joined by sep
IsJoinedOf(s, sep, ns, Is(_, _)) ==
  LET parts == Split(s, sep) IN
    Len(parts) = Len(ns) /\ \A i \in 1..Len(ns) : Is(parts[i], ns[i])
DeviceInfoTest == <<1, 2, 0, 0, 258, 3, 17, 8755, 17493, 773, 7>>

\* C23: from a device-info batch r of at least 11 registers the serial is
\* the decimal numeral of r[0] * 65536 + r[1], the hardware version is
\* (r[4] >> 8).(r[4] & 255).r[5], the firmware version the same of r[9] and
\* r[10], and the MAC the six bytes of r[6..8] as uppercase two-digit
\* hexadecimal pairs joined by colons; the registers of the test give 65538,
\* 1.2.3, 3.5.7 and 00:11:22:33:44:55.  (Positions count from 1 here.)
C23_DeviceInfoStrings ==
  Decoded /\ Has(raw_data, "device_info") /\ Len(raw_data["device_info"]) >= 11 =>
    LET r == raw_data["device_info"] IN
      /\ meta.known
      /\ IsDecimal(meta.serial) /\ Len(meta.serial) <= 10
      /\ HalvesOf(meta.serial) = <<r[1], r[2]>>
      /\ IsJoinedOf(meta.hardware, ".", <<r[5] \div 256, r[5] % 256, r[6]>>, IsDecimalOf)
      /\ IsJoinedOf(meta.firmware, ".", <<r[10] \div 256, r[10] % 256, r[11]>>, IsDecimalOf)
      /\ IsJoinedOf(meta.mac, ":", <<r[7] \div 256, r[7] % 256, r[8] \div 256, r[8] % 256,
                                    r[9] \div 256, r[9] % 256>>, IsHexPairOf)
      /\ (\A i \in 1..11 : r[i] = DeviceInfoTest[i]) =>
           /\ meta.serial = <<"6", "5", "5", "3", "8">>
           /\ meta.hardware = <<"1", ".", "2", ".", "3">>
           /\ meta.firmware = <<"3", ".", "5", ".", "7">>
           /\ meta.mac = <<"0", "0", ":", "1", "1", ":", "2", "2", ":", "3", "3", ":",
                           "4", "4", ":", "5", "5">>

\* the registers of the test were processed
C23_Witness ==
  /\ Decoded
  /\ raw_data = ("device_info" :> DeviceInfoTest)
  /\ meta.known
  /\ Len(meta.mac) = 17

\* the helper was called / its result was handed to the inverse helper
Called1(fn) == fn_call.fn = fn /\ Len(fn_result) >= 1
Called2(fn) == fn_call.fn = fn /\ Len(fn_result) = 2
\* a string is four decimal numerals of 0..255 joined by dots
IsOctet(s) == IsDecimal(s) /\ Len(s) <= 3 /\ DigitsValue(s) <= 255
IsDottedQuad(s) ==
  LET parts == Split(s, ".") IN Len(parts) = 4 /\ \A i \in 1..4 : IsOctet(parts[i])

\* C24: ip_to_registers raises for every string that is not four
\* dot-separated octets of 0..255, and returns no register pair for it.
C24_MalformedAddressRaises ==
  Called1("ip_to_registers") /\ ~IsDottedQuad(fn_call.arg) => fn_result[1].raised # "none"

\* C25: to_signed_int16 and to_unsigned_int16 are inverse bijections
\* between 0..65535 and -32768..32767 (32767 stays, 32768 is -32768, 65535
\* is -1); unscale_signed_temperature(scale_signed_temperature(r)) = r for
\* every register r; scale_signed_temperature(65516) is -2.0 and
\* unscale_signed_temperature(-2.0) is 65516.
C25_SignedHelpersInverse ==
  /\ Called1("to_signed_int16") =>
       /\ fn_result[1].value \in SignedValues
       /\ fn_result[1].value % 65536 = fn_call.arg
       /\ fn_call.arg = 32767 => fn_result[1].value = 32767
       /\ fn_call.arg = 32768 => fn_result[1].value = -32768
       /\ fn_call.arg = 65535 => fn_result[1].value = -1
  /\ Called1("to_unsigned_int16") =>
       /\ fn_result[1].value \in Registers
       /\ fn_result[1].value % 65536 = fn_call.arg % 65536
  /\ Called2("to_signed_int16") => fn_result[2].value = fn_call.arg
  /\ Called2("to_unsigned_int16") => fn_result[2].value = fn_call.arg
  /\ Called1("scale_signed_temperature") =>
       /\ fn_result[1].value.den = 10
       /\ fn_result[1].value.num \in SignedValues
       /\ fn_call.arg = 65516 => SameNumber(fn_result[1].value, [num |-> -2, den |-> 1])
  /\ Called2("scale_signed_temperature") => fn_result[2].value = fn_call.arg
  /\ Called1("unscale_signed_temperature")
       /\ SameNumber(fn_call.arg, [num |-> -2, den |-> 1]) => fn_result[1].value = 65516

\* a register with the sign bit set went through scale_signed_temperature
\* and back
C25_Witness ==
  /\ Called2("scale_signed_temperature")
  /\ fn_call.arg = 65516
  /\ fn_result[1].value.num = -20
  /\ fn_result[2].value = 65516

\* C26: ip_to_registers(registers_to_ip(r0, r1)) = (r0, r1) for registers
\* r0, r1; registers_to_ip(ip_to_registers(s)) = s for every dotted quad s
\* of octets 0..255; (49320, 356) and 192.168.1.100 correspond.
C26_AddressHelpersInverse ==
  /\ Called1("registers_to_ip") =>
       /\ IsDottedQuad(fn_result[1].value)
       /\ fn_call.arg = <<49320, 356>> =>
            fn_result[1].value = <<"1", "9", "2", ".", "1", "6", "8", ".", "1", ".",
                                   "1", "0", "0">>
  /\ Called2("registers_to_ip") =>
       fn_result[2].raised = "none" /\ fn_result[2].value = fn_call.arg
  /\ Called1("ip_to_registers") /\ IsDottedQuad(fn_call.arg) =>
       /\ fn_result[1].raised = "none"
       /\ fn_result[1].value[1] \in Registers /\ fn_result[1].value[2] \in Registers
  /\ Called2("ip_to_registers") /\ IsDottedQuad(fn_call.arg) =>
       fn_result[2].value = fn_call.arg

\* 192.168.1.100 was turned into its registers and back
C26_Witness ==
  /\ Called2("ip_to_registers")
  /\ fn_call.arg = <<"1", "9", "2", ".", "1", "6", "8", ".", "1", ".", "1", "0", "0">>
  /\ fn_result[1].value = <<49320, 356>>

\* C27: for every number entity with a signed encoding and every value of
\* its range in hundredths, scale_fn gives the register that
\* unscale_signed_temperature gives for the value, and it lies in 0..65535.
C27_SignedScaleFnIsUnscale ==
  pc["job"] \in {"number_written", "number_read"}
    /\ NumberDescription(number_key).scale_fn = "signed" =>
      /\ jval = unscale_signed_temperature(native_value)
      /\ jval \in Registers

\* the registers of addresses first..last, in address order
AddressRange(first, last) == [i \in 1..(last - first + 1) |-> first + i - 1]
GroupIs(key, first, last) == Has(raw_data, key) /\ raw_data[key] = AddressRange(first, last)

\* C28: when the input reads at 1 (17 registers), 20 (2), 30 (3) and 40
\* (10) each returned the requested count, device_info holds the registers
\* of addresses 1..11, network_info 12..17, system_status 20..21, regulation
\* 30..32 and boiler_status 40..49, in address order, and no zero
\* placeholder is inside a slice (every register of the device holds its
\* address).
C28_FirstBatchSlices ==
  Batch1Complete(batch) =>
    /\ GroupIs("device_info", 1, 11)
    /\ GroupIs("network_info", 12, 17)
    /\ GroupIs("system_status", 20, 21)
    /\ GroupIs("regulation", 30, 32)
    /\ GroupIs("boiler_status", 40, 49)

\* the four reads succeeded with the requested counts and the slices are
\* stored
C28_Witness ==
  /\ Batch1Complete(batch)
  /\ Len(batch[1].regs) = 17 /\ Len(batch[2].regs) = 2
  /\ Len(batch[3].regs) = 3 /\ Len(batch[4].regs) = 10
  /\ Has(raw_data, "boiler_status")

\* C29: whenever the client's authentication state is true, the client is
\* connected and the device has accepted a handshake on the current
\* connection.
C29_AuthenticatedImpliesSession ==
  authenticated => sockOpen /\ devUnlocked

\* the job thread hands its data write to the transport in this step
DataWriteIssued == pc["job"] = "write_send" /\ pc["job"]' = "write_data"

\* C30: with a poll and a write_register to a protected address running
\* side by side on the client, the data write is issued only while the
\* authentication state is true: no close() takes effect between the
\* write's authentication check and its data write.
C30_DataWriteWhileAuthenticated ==
  [][DataWriteIssued /\ Protected(jaddr) => authenticated]_vars

====
